---- MODULE Spec2Model ----
(***************************************************************************)
(* Multi-source literature search: the Deduplicator                        *)
(* (src/search/deduplicator.py) and the SearchOrchestrator                 *)
(* (src/search/orchestrator.py) over the Paper / SearchQuery /             *)
(* SearchResult records of src/models.py.                                  *)
(*                                                                         *)
(* Strings that the code inspects character by character (titles,          *)
(* abstracts, the query string) are sequences of one-character strings.    *)
(* Optional scalar fields use None for every falsy value (None and ""      *)
(* are not told apart by any test in the code: `if paper.doi`,             *)
(* `not target.doi`).                                                      *)
(***************************************************************************)
EXTENDS Integers, Sequences, FiniteSets, TLC

\* ------------------------------------------------------------------------
\* Bounds of the exploration
\* ------------------------------------------------------------------------
MaxPapers == 3

MaxSources == 3

\* ------------------------------------------------------------------------
\* Generic helpers
\* ------------------------------------------------------------------------
None == ""

Min(x, y) == IF x <= y THEN x ELSE y

Max(x, y) == IF x >= y THEN x ELSE y

Range(s) == {s[i] : i \in 1..Len(s)}

RECURSIVE SeqSum(_)
SeqSum(s) == IF s = <<>> THEN 0 ELSE Head(s) + SeqSum(Tail(s))

\* `for x in items: if x not in target: target.append(x)`
RECURSIVE AppendNew(_, _)
AppendNew(target, items) ==
    IF items = <<>> THEN target
    ELSE AppendNew(IF Head(items) \in Range(target) THEN target
                   ELSE Append(target, Head(items)),
                   Tail(items))

\* dict key order: the distinct values of s in first-insertion order
FirstSeen(s) == AppendNew(<<>>, s)

\* ------------------------------------------------------------------------
\* Characters: str.lower(), \w and \s of _normalize_title
\* ------------------------------------------------------------------------
Lower(c) == CASE c = "A" -> "a"
              [] c = "B" -> "b"
              [] c = "C" -> "c"
              [] OTHER   -> c

WordChars == {"a", "b", "c", "d", "A", "B", "C", "_", "0", "1"}

SpaceChars == {" "}

LowerStr(s) == [i \in 1..Len(s) |-> Lower(s[i])]

\* re.sub(r'[^\w\s]', ' ', title)
StripPunct(s) ==
    [i \in 1..Len(s) |-> IF s[i] \in WordChars \cup SpaceChars THEN s[i] ELSE " "]

\* str.split(): the maximal runs of non-whitespace characters
RECURSIVE SplitFrom(_, _, _)
SplitFrom(s, cur, acc) ==
    IF s = <<>> THEN (IF cur = <<>> THEN acc ELSE Append(acc, cur))
    ELSE IF Head(s) \in SpaceChars
         THEN SplitFrom(Tail(s), <<>>, IF cur = <<>> THEN acc ELSE Append(acc, cur))
         ELSE SplitFrom(Tail(s), Append(cur, Head(s)), acc)

Split(s) == SplitFrom(s, <<>>, <<>>)

\* ' '.join(words)
RECURSIVE JoinWords(_)
JoinWords(words) ==
    IF words = <<>> THEN <<>>
    ELSE IF Len(words) = 1 THEN Head(words)
    ELSE Head(words) \o <<" ">> \o JoinWords(Tail(words))

\* `term in text` for strings
IsSubstring(term, text) ==
    \E i \in 0..(Len(text) - Len(term)) :
        \A t \in 1..Len(term) : text[i + t] = term[t]

\* ------------------------------------------------------------------------
\* Deduplicator._normalize_title
\* ------------------------------------------------------------------------
NormalizeTitle(title) == JoinWords(Split(StripPunct(LowerStr(title))))

\* ------------------------------------------------------------------------
\* difflib.SequenceMatcher(None, a, b).ratio() as used by _titles_similar
\* (no junk; the autojunk heuristic needs 200 characters)
\* ------------------------------------------------------------------------
\* length of the common run starting at a[i], b[j] inside [i, ahi) x [j, bhi)
RunLen(a, b, i, j, ahi, bhi) ==
    CHOOSE k \in 0..Min(ahi - i, bhi - j) :
        /\ \A t \in 0..(k - 1) : a[i + t] = b[j + t]
        /\ \/ k = Min(ahi - i, bhi - j)
           \/ a[i + k] # b[j + k]

\* find_longest_match: the longest block, earliest in a, then earliest in b
FindLongestMatch(a, b, alo, ahi, blo, bhi) ==
    LET I == alo..(ahi - 1)
        J == blo..(bhi - 1)
        best == CHOOSE k \in 0..Min(ahi - alo, bhi - blo) :
                   /\ \/ k = 0
                      \/ \E i \in I, j \in J : RunLen(a, b, i, j, ahi, bhi) = k
                   /\ \A i \in I, j \in J : RunLen(a, b, i, j, ahi, bhi) <= k
        bi == CHOOSE i \in I :
                   /\ \E j \in J : RunLen(a, b, i, j, ahi, bhi) = best
                   /\ \A i2 \in I : (\E j \in J : RunLen(a, b, i2, j, ahi, bhi) = best)
                                    => i <= i2
        bj == CHOOSE j \in J :
                   /\ RunLen(a, b, bi, j, ahi, bhi) = best
                   /\ \A j2 \in J : RunLen(a, b, bi, j2, ahi, bhi) = best => j <= j2
    IN  IF best = 0 THEN [i |-> alo, j |-> blo, k |-> 0]
        ELSE [i |-> bi, j |-> bj, k |-> best]

\* get_matching_blocks: total size of the blocks found left and right of the
\* longest one, recursively
RECURSIVE MatchingSize(_, _, _, _, _, _)
MatchingSize(a, b, alo, ahi, blo, bhi) ==
    IF alo >= ahi \/ blo >= bhi THEN 0
    ELSE LET m == FindLongestMatch(a, b, alo, ahi, blo, bhi)
         IN  IF m.k = 0 THEN 0
             ELSE m.k + MatchingSize(a, b, alo, m.i, blo, m.j)
                      + MatchingSize(a, b, m.i + m.k, ahi, m.j + m.k, bhi)

\* Deduplicator.__init__: similarity_threshold = 0.85, in percent
SimilarityThresholdPct == 85

\* ratio() >= similarity_threshold, ratio = 2.0 * matches / (len(a) + len(b))
RatioAtLeastThreshold(a, b) ==
    IF Len(a) + Len(b) = 0 THEN TRUE
    ELSE 200 * MatchingSize(a, b, 1, Len(a) + 1, 1, Len(b) + 1)
            >= SimilarityThresholdPct * (Len(a) + Len(b))

\* Deduplicator._titles_similar
TitlesSimilar(title1, title2) ==
    IF title1 = <<>> \/ title2 = <<>> THEN FALSE
    ELSE LET t1 == NormalizeTitle(title1)
             t2 == NormalizeTitle(title2)
         IN  IF t1 = t2 THEN TRUE ELSE RatioAtLeastThreshold(t1, t2)

\* ------------------------------------------------------------------------
\* models.Paper: the fields the Deduplicator and the Ranker read or write.
\* year = 0 stands for "no year" (both are falsy in `if paper.year`),
\* relevance_score = -1 for "not ranked yet".
\* ------------------------------------------------------------------------
Paper(title, doi, pmid, arxiv_id, sources) ==
    [title |-> title, doi |-> doi, pmid |-> pmid, pmcid |-> None,
     arxiv_id |-> arxiv_id, authors |-> <<>>, year |-> 0,
     abstract |-> <<>>, keywords |-> <<>>, citations |-> 0,
     relevance_score |-> -1, url |-> None, pdf_url |-> None,
     paper_type |-> "unknown", sources |-> sources]

\* ------------------------------------------------------------------------
\* Deduplicator._merge_into, one pass of its loop body: fold `paper` into
\* `target`
\* ------------------------------------------------------------------------
\* faulty variant: on equal length the later abstract wins
MergeAbstractLatestOnTie(target, paper) ==
    IF paper.abstract # <<>> /\ Len(paper.abstract) >= Len(target.abstract)
    THEN paper.abstract
    ELSE target.abstract

MergeAbstract(target, paper) ==
    IF target.abstract = <<>> /\ paper.abstract # <<>> THEN paper.abstract
    ELSE IF paper.abstract # <<>> /\ Len(paper.abstract) > Len(target.abstract)
         THEN paper.abstract
         ELSE target.abstract

\* faulty variant: the other record's value wins whenever it has one
FillAlways(mine, theirs) == IF theirs # None THEN theirs ELSE mine

FillIfEmpty(mine, theirs) == IF mine = None /\ theirs # None THEN theirs ELSE mine

\* faulty variant: the base record's sources are kept, the other's are not added
MergeSourcesKeepBase(target, paper) == target.sources

MergeSources(target, paper) == AppendNew(target.sources, paper.sources)

\* faulty variant: the base record's citation count is kept
MergeCitationsKeepBase(target, paper) == target.citations

MergeCitations(target, paper) ==
    IF paper.citations > target.citations THEN paper.citations ELSE target.citations

\* faulty variant: the other record's keywords are all appended
MergeKeywordsConcat(target, paper) == target.keywords \o paper.keywords

MergeKeywords(target, paper) == AppendNew(target.keywords, paper.keywords)

MergeOne(target, paper) ==
    [target EXCEPT
        !.sources    = MergeSources(target, paper),
        !.abstract   = MergeAbstract(target, paper),
        !.doi        = FillIfEmpty(target.doi, paper.doi),
        !.pmid       = FillIfEmpty(target.pmid, paper.pmid),
        !.pmcid      = FillIfEmpty(target.pmcid, paper.pmcid),
        !.arxiv_id   = FillIfEmpty(target.arxiv_id, paper.arxiv_id),
        !.pdf_url    = FillIfEmpty(target.pdf_url, paper.pdf_url),
        !.url        = FillIfEmpty(target.url, paper.url),
        !.citations  = MergeCitations(target, paper),
        !.keywords   = MergeKeywords(target, paper),
        !.paper_type = IF target.paper_type = "unknown" /\ paper.paper_type # "unknown"
                       THEN paper.paper_type ELSE target.paper_type,
        !.authors    = IF Len(paper.authors) > Len(target.authors)
                       THEN paper.authors ELSE target.authors]

\* Deduplicator._merge_into
RECURSIVE MergeInto(_, _)
MergeInto(target, group) ==
    IF group = <<>> THEN target
    ELSE MergeInto(MergeOne(target, Head(group)), Tail(group))

\* faulty variant: the last record of the group is taken as the base
MergePaperGroupLastBase(group) ==
    IF Len(group) = 1 THEN group[1]
    ELSE MergeInto(group[Len(group)], SubSeq(group, 1, Len(group) - 1))

\* Deduplicator._merge_paper_group
MergePaperGroup(group) ==
    IF Len(group) = 1 THEN group[1]
    ELSE MergeInto(group[1], Tail(group))

\* ------------------------------------------------------------------------
\* Deduplicator._group_by_title_similarity
\* ------------------------------------------------------------------------
\* the entries of s at the indices in idx, in list order
RECURSIVE PickFrom(_, _, _)
PickFrom(s, idx, i) ==
    IF i > Len(s) THEN <<>>
    ELSE (IF i \in idx THEN <<s[i]>> ELSE <<>>) \o PickFrom(s, idx, i + 1)

RECURSIVE GroupFrom(_, _, _, _)
GroupFrom(ps, i, processed, groups) ==
    IF i > Len(ps) THEN groups
    ELSE IF i \in processed THEN GroupFrom(ps, i + 1, processed, groups)
    ELSE LET similar == {j \in (i + 1)..Len(ps) :
                            /\ j \notin processed
                            /\ TitlesSimilar(ps[i].title, ps[j].title)}
             group == <<ps[i]>> \o PickFrom(ps, similar, 1)
         IN  GroupFrom(ps, i + 1, processed \cup {i} \cup similar,
                       Append(groups, group))

GroupByTitleSimilarity(ps) == GroupFrom(ps, 1, {}, <<>>)

\* ------------------------------------------------------------------------
\* Deduplicator.deduplicate
\* ------------------------------------------------------------------------
\* the four indices built by the first loop
\* faulty variant: one group per DOI-bearing record (the index keeps repeated keys)
DoiKeysRepeated(ps) ==
    [i \in 1..Len(SelectSeq(ps, LAMBDA p : p.doi # None))
        |-> SelectSeq(ps, LAMBDA p : p.doi # None)[i].doi]

DoiKeys(ps) ==
    FirstSeen([i \in 1..Len(SelectSeq(ps, LAMBDA p : p.doi # None))
                 |-> SelectSeq(ps, LAMBDA p : p.doi # None)[i].doi])

DoiGroup(ps, doi) == SelectSeq(ps, LAMBDA p : p.doi = doi)

\* faulty variant: `if paper.pmid` instead of `elif paper.pmid`
InPmidIndexNoPriority(p) == p.pmid # None

InPmidIndex(p) == p.doi = None /\ p.pmid # None

PmidKeys(ps) ==
    FirstSeen([i \in 1..Len(SelectSeq(ps, InPmidIndex))
                 |-> SelectSeq(ps, InPmidIndex)[i].pmid])

PmidGroup(ps, pmid) == SelectSeq(ps, LAMBDA p : InPmidIndex(p) /\ p.pmid = pmid)

InArxivIndex(p) == p.doi = None /\ p.pmid = None /\ p.arxiv_id # None

ArxivKeys(ps) ==
    FirstSeen([i \in 1..Len(SelectSeq(ps, InArxivIndex))
                 |-> SelectSeq(ps, InArxivIndex)[i].arxiv_id])

ArxivGroup(ps, arxiv_id) ==
    SelectSeq(ps, LAMBDA p : InArxivIndex(p) /\ p.arxiv_id = arxiv_id)

NoIdPapers(ps) ==
    SelectSeq(ps, LAMBDA p : p.doi = None /\ p.pmid = None /\ p.arxiv_id = None)

\* state of the processing loops: merged_papers and processed_ids
\* ("doi:X" is the pair <<"doi", X>>)
RECURSIVE ProcessDoiGroups(_, _, _)
ProcessDoiGroups(ps, keys, st) ==
    IF keys = <<>> THEN st
    ELSE ProcessDoiGroups(ps, Tail(keys),
            [merged    |-> Append(st.merged, MergePaperGroup(DoiGroup(ps, Head(keys)))),
             processed |-> st.processed \cup {<<"doi", Head(keys)>>}])

\* faulty variant: a PMID group counts as claimed once any DOI is claimed
PmidGroupClaimedByAnyDoi(group, processed) == processed # {}

PmidGroupClaimed(group, processed) ==
    \E i \in 1..Len(group) :
        group[i].doi # None /\ <<"doi", group[i].doi>> \in processed

RECURSIVE ProcessPmidGroups(_, _, _)
ProcessPmidGroups(ps, keys, st) ==
    IF keys = <<>> THEN st
    ELSE ProcessPmidGroups(ps, Tail(keys),
            IF ~PmidGroupClaimed(PmidGroup(ps, Head(keys)), st.processed)
            THEN [merged    |-> Append(st.merged,
                                       MergePaperGroup(PmidGroup(ps, Head(keys)))),
                  processed |-> st.processed \cup {<<"pmid", Head(keys)>>}]
            ELSE st)

\* faulty variant: an arXiv group counts as claimed once any identifier is
ArxivGroupClaimedByAnyId(group, processed) == processed # {}

ArxivGroupClaimed(group, processed) ==
    \E i \in 1..Len(group) :
        \/ group[i].doi # None /\ <<"doi", group[i].doi>> \in processed
        \/ group[i].pmid # None /\ <<"pmid", group[i].pmid>> \in processed

RECURSIVE ProcessArxivGroups(_, _, _)
ProcessArxivGroups(ps, keys, st) ==
    IF keys = <<>> THEN st
    ELSE ProcessArxivGroups(ps, Tail(keys),
            IF ~ArxivGroupClaimed(ArxivGroup(ps, Head(keys)), st.processed)
            THEN [merged    |-> Append(st.merged,
                                       MergePaperGroup(ArxivGroup(ps, Head(keys)))),
                  processed |-> st.processed \cup {<<"arxiv", Head(keys)>>}]
            ELSE st)

\* the loop over title_groups: merge into the first already produced record
\* with a similar title, else emit the group as a new record
\* faulty variant: every title group is emitted as a new record
RECURSIVE ProcessTitleGroupsAlwaysNew(_, _)
ProcessTitleGroupsAlwaysNew(groups, merged) ==
    IF groups = <<>> THEN merged
    ELSE ProcessTitleGroupsAlwaysNew(Tail(groups),
                                     Append(merged, MergePaperGroup(Head(groups))))

RECURSIVE ProcessTitleGroups(_, _)
ProcessTitleGroups(groups, merged) ==
    IF groups = <<>> THEN merged
    ELSE LET group == Head(groups)
             hits == {k \in 1..Len(merged) :
                         TitlesSimilar(group[1].title, merged[k].title)}
         IN  ProcessTitleGroups(Tail(groups),
                IF hits # {}
                THEN LET k == CHOOSE k \in hits : \A k2 \in hits : k <= k2
                     IN  [merged EXCEPT ![k] = MergeInto(@, group)]
                ELSE Append(merged, MergePaperGroup(group)))

Deduplicate(ps) ==
    IF ps = <<>> THEN <<>>
    ELSE LET st1 == ProcessDoiGroups(ps, DoiKeys(ps),
                                     [merged |-> <<>>, processed |-> {}])
             st2 == ProcessPmidGroups(ps, PmidKeys(ps), st1)
             st3 == ProcessArxivGroups(ps, ArxivKeys(ps), st2)
         IN  ProcessTitleGroups(GroupByTitleSimilarity(NoIdPapers(ps)), st3.merged)

\* ------------------------------------------------------------------------
\* SearchOrchestrator._rank_papers.  Scores are whole points: the citation
\* counts explored are 10^k - 1, for which 5 * log10(citations + 1) = 5k.
\* ------------------------------------------------------------------------
\* datetime.now().year
CurrentYear == 2026

RECURSIVE Log10(_)
Log10(n) == IF n < 10 THEN 0 ELSE 1 + Log10(n \div 10)

\* faulty variant: the citation term shrinks as citations grow
CitationScoreDecreasing(citations) ==
    IF citations > 0 THEN 30 - Min(30, 5 * Log10(citations + 1)) ELSE 0

CitationScore(citations) ==
    IF citations > 0 THEN Min(30, 5 * Log10(citations + 1)) ELSE 0

\* faulty variant: the tiers exclude their upper edge
RecencyScoreStrict(year) ==
    IF year = 0 THEN 0
    ELSE LET years_old == CurrentYear - year
         IN  IF years_old < 2 THEN 20
             ELSE IF years_old < 5 THEN 15
             ELSE IF years_old < 10 THEN 10
             ELSE IF years_old < 20 THEN 5
             ELSE 0

RecencyScore(year) ==
    IF year = 0 THEN 0
    ELSE LET years_old == CurrentYear - year
         IN  IF years_old <= 2 THEN 20
             ELSE IF years_old <= 5 THEN 15
             ELSE IF years_old <= 10 THEN 10
             ELSE IF years_old <= 20 THEN 5
             ELSE 0

\* set(query.query.lower().split())
QueryTerms(q) == Range(Split(LowerStr(q.query)))

RelevanceScore(paper, q) ==
    LET title_lower == LowerStr(paper.title)
        title_matches == Cardinality({t \in QueryTerms(q) : IsSubstring(t, title_lower)})
        abstract_matches ==
            IF paper.abstract # <<>>
            THEN Cardinality({t \in QueryTerms(q) :
                                 IsSubstring(t, LowerStr(paper.abstract))})
            ELSE 0
    IN  title_matches * 20
        + abstract_matches * 5
        + CitationScore(paper.citations)
        + RecencyScore(paper.year)
        + Len(paper.sources) * 10
        + (IF q.paper_types # <<>> /\ paper.paper_type \in Range(q.paper_types)
           THEN 15 ELSE 0)

\* key=lambda p: p.relevance_score or 0
SortKey(p) == IF p.relevance_score = -1 THEN 0 ELSE p.relevance_score

\* faulty variant: a record goes before the records of equal score
RECURSIVE InsertDescUnstable(_, _)
InsertDescUnstable(sorted, p) ==
    IF sorted = <<>> THEN <<p>>
    ELSE IF SortKey(Head(sorted)) > SortKey(p)
         THEN <<Head(sorted)>> \o InsertDescUnstable(Tail(sorted), p)
         ELSE <<p>> \o sorted

\* sorted(..., reverse=True): stable, descending
RECURSIVE InsertDesc(_, _)
InsertDesc(sorted, p) ==
    IF sorted = <<>> THEN <<p>>
    ELSE IF SortKey(Head(sorted)) >= SortKey(p)
         THEN <<Head(sorted)>> \o InsertDesc(Tail(sorted), p)
         ELSE <<p>> \o sorted

RECURSIVE SortedDesc(_, _)
SortedDesc(ps, acc) ==
    IF ps = <<>> THEN acc
    ELSE SortedDesc(Tail(ps), InsertDesc(acc, Head(ps)))

\* faulty variant: the loop also resets the paper type
ScorePapersResetType(ps, q) ==
    [i \in 1..Len(ps) |-> [ps[i] EXCEPT !.relevance_score = RelevanceScore(ps[i], q),
                                        !.paper_type = "unknown"]]

\* the `for paper in papers` loop: paper.relevance_score = score
ScorePapers(ps, q) ==
    [i \in 1..Len(ps) |-> [ps[i] EXCEPT !.relevance_score = RelevanceScore(ps[i], q)]]

RankPapers(ps, q) == SortedDesc(ScorePapers(ps, q), <<>>)

\* ------------------------------------------------------------------------
\* The records explored.  Titles: "aab" and "Aab." are equal once
\* normalized; "aab"/"aabb" and "aabb"/"abb" reach the similarity threshold
\* (ratio 6/7) while "aab"/"abb" do not (4/6); "ba" is similar to none; ""
\* is the empty title.
\* ------------------------------------------------------------------------
Title_aab  == <<"a", "a", "b">>
Title_Aab  == <<"A", "a", "b", ".">>
Title_aabb == <<"a", "a", "b", "b">>
Title_abb  == <<"a", "b", "b">>
Title_ba   == <<"b", "a">>
Title_none == <<>>

PaperA  == [Paper(Title_aab, "10.1/x", None, None, <<"pubmed">>) EXCEPT
               !.citations = 9, !.keywords = <<"k1">>,
               !.abstract = <<"a", "a", "b">>, !.year = 2025,
               !.authors = <<"au1">>]
PaperB  == [Paper(Title_aabb, "10.1/x", "111", None, <<"crossref">>) EXCEPT
               !.citations = 99, !.keywords = <<"k2", "k1">>, !.pmcid = "PMC1",
               !.url = "u1", !.paper_type = "article",
               !.authors = <<"au1", "au2">>]
PaperC  == [Paper(Title_abb, None, "111", None, <<"arxiv">>) EXCEPT
               !.keywords = <<"k3">>, !.pmcid = "PMC2", !.year = 2010]
PaperD  == [Paper(Title_ba, "10.1/x", "222", None, <<"scholar">>) EXCEPT
               !.abstract = <<"b", "a", "a", "b">>, !.pdf_url = "f1",
               !.paper_type = "review"]
PaperE  == [Paper(Title_ba, "10.2/y", "111", "2301.1", <<"crossref">>) EXCEPT
               !.citations = 9]
PaperF  == [Paper(Title_aab, None, None, "2301.1", <<"arxiv">>) EXCEPT
               !.paper_type = "preprint", !.pdf_url = "f2"]
PaperG  == Paper(Title_abb, None, "111", "2302.2", <<"pubmed", "pmc">>)
PaperN1 == [Paper(Title_aab, None, None, None, <<"scholar">>) EXCEPT
               !.keywords = <<"k4">>, !.citations = 999]
PaperN2 == [Paper(Title_Aab, None, None, None, <<"wos">>) EXCEPT
               !.abstract = <<"a", "b">>, !.url = "u2"]
PaperN3 == [Paper(Title_aabb, None, None, None, <<"pubmed">>) EXCEPT
               !.keywords = <<"k5">>]
PaperN4 == [Paper(Title_abb, None, None, None, <<"crossref">>) EXCEPT
               !.authors = <<"au3">>]
PaperN5 == Paper(Title_ba, None, None, None, <<"scholar", "wos">>)
PaperN6 == Paper(Title_none, None, None, None, <<"wos">>)

PaperPool == {PaperA, PaperB, PaperC, PaperD, PaperE, PaperF, PaperG,
              PaperN1, PaperN2, PaperN3, PaperN4, PaperN5, PaperN6}

\* ------------------------------------------------------------------------
\* models.Source, the providers registered by SearchOrchestrator.__init__,
\* Config.MAX_CONCURRENT_REQUESTS
\* ------------------------------------------------------------------------
Source == {"pubmed", "arxiv", "crossref", "scholar", "wos", "semantic_scholar", "pmc"}

Providers == {"pubmed", "arxiv", "crossref", "scholar", "wos"}

MAX_CONCURRENT_REQUESTS == 5

\* The queries explored: SearchQuery.sources is a list (repeats allowed,
\* any Source member allowed) over these sources, the query string is "aab".
QuerySources == {"pubmed", "crossref", "pmc"}

RECURSIVE SeqsUpTo(_, _)
SeqsUpTo(S, n) ==
    IF n = 0 THEN {<<>>}
    ELSE SeqsUpTo(S, n - 1)
         \cup {Append(s, x) : s \in {t \in SeqsUpTo(S, n - 1) : Len(t) = n - 1}, x \in S}

SearchQuery(sources) ==
    [query |-> <<"a", "a", "b">>, sources |-> sources, paper_types |-> <<>>]

Queries == {SearchQuery(s) : s \in SeqsUpTo(QuerySources, MaxSources)}

\* What a provider's search(query) may return when it does not raise.
ProviderResults(source) ==
    CASE source = "pubmed"   -> {<<>>, <<PaperA, PaperG>>}
      [] source = "crossref" -> {<<>>, <<PaperB, PaperN4>>}
      [] source = "arxiv"    -> {<<>>, <<PaperF, PaperC>>}
      [] source = "scholar"  -> {<<>>, <<PaperD, PaperN1>>}
      [] source = "wos"      -> {<<PaperN2, PaperN6>>}
      [] OTHER               -> {<<>>}

\* ------------------------------------------------------------------------
\* State
\* ------------------------------------------------------------------------
VARIABLES
    \* SearchOrchestrator.search
    query,               \* the SearchQuery
    pc,                  \* position of the calling thread in search()
    next_source,         \* index of the `for source in query.sources` loop
    futures,             \* the submitted units: source, state, outcome
    already_finished,    \* as_completed: futures finished when it was called
    finished_futures,    \* as_completed: futures finished since, in order
    completion_order,    \* the units in the order in which they finished,
                         \* kept while record_completion holds
    record_completion,   \* whether the run keeps completion_order
    collected,           \* futures the as_completed loop has handled, in order
    results_by_source,   \* dict, as a list of <<source, papers>> in key order
    errors,              \* keys of the errors dict
    all_papers,
    deduplicated_papers,
    result,              \* the SearchResult returned
    \* Deduplicator.deduplicate called directly
    papers,              \* the list handed to deduplicate
    merged_papers,       \* what it returned
    merged_again,        \* deduplicate applied to its own output
    dstep,
    \* SearchOrchestrator._rank_papers called directly
    rank_query,          \* the SearchQuery handed to _rank_papers
    rank_papers,         \* the list handed to _rank_papers, as it was given
    scored_papers,       \* the same list after the call (scores are written
                         \* on the records of the list itself)
    ranked_papers,       \* what _rank_papers returned
    rstep,
    \* SearchOrchestrator.get_paper_by_id
    identifier,          \* the identifier asked for
    source_hint,         \* the `source` argument, None when absent
    consulted,           \* the providers whose get_paper_by_id was called, in order
    found_by,            \* the provider whose paper was returned, None for None
    lstep,
    \* Deduplicator._merge_paper_group called directly
    merge_group,         \* the group handed to _merge_paper_group
    merge_result,        \* the record it returned
    mstep,
    \* RateLimiter.wait_if_needed called by several threads
    clock,               \* time.time(), in ticks
    last_call,           \* self.last_call: key -> time
    waiter,              \* per thread: position in wait_if_needed and its locals
    returned             \* the calls that have returned, in order: key, thread,
                         \* how many calls had returned when it began, time

searchVars == <<query, pc, next_source, futures, already_finished, finished_futures,
                completion_order, record_completion,
                collected, results_by_source, errors, all_papers,
                deduplicated_papers, result>>

dedupVars == <<papers, merged_papers, merged_again, dstep>>

rankVars == <<rank_query, rank_papers, scored_papers, ranked_papers, rstep>>

lookupVars == <<identifier, source_hint, consulted, found_by, lstep>>

mergeVars == <<merge_group, merge_result, mstep>>

limiterVars == <<clock, last_call, waiter, returned>>

vars == <<query, pc, next_source, futures, already_finished, finished_futures,
          completion_order, record_completion,
          collected, results_by_source, errors, all_papers,
          deduplicated_papers, result, papers, merged_papers, merged_again, dstep,
          rank_query, rank_papers, scored_papers, ranked_papers, rstep,
          identifier, source_hint, consulted, found_by, lstep,
          merge_group, merge_result, mstep, clock, last_call, waiter, returned>>

NoResult == [papers |-> <<>>, total_found |-> 0, sources_searched |-> <<>>,
             errors |-> {}]

SearchIdle ==
    /\ query = SearchQuery(<<>>)
    /\ pc = "idle"
    /\ next_source = 1
    /\ futures = <<>>
    /\ already_finished = {}
    /\ finished_futures = <<>>
    /\ completion_order = <<>>
    /\ record_completion = FALSE
    /\ collected = <<>>
    /\ results_by_source = <<>>
    /\ errors = {}
    /\ all_papers = <<>>
    /\ deduplicated_papers = <<>>
    /\ result = NoResult

DedupIdle ==
    /\ papers = <<>>
    /\ merged_papers = <<>>
    /\ merged_again = <<>>
    /\ dstep = "idle"

MergeIdle ==
    /\ merge_group = <<>>
    /\ merge_result = <<>>
    /\ mstep = "idle"

LimiterIdle ==
    /\ clock = 0
    /\ last_call = <<>>
    /\ waiter = <<>>
    /\ returned = <<>>

LookupIdle ==
    /\ identifier = <<>>
    /\ source_hint = None
    /\ consulted = <<>>
    /\ found_by = None
    /\ lstep = "idle"

RankIdle ==
    /\ rank_query = SearchQuery(<<>>)
    /\ rank_papers = <<>>
    /\ scored_papers = <<>>
    /\ ranked_papers = <<>>
    /\ rstep = "idle"

\* ------------------------------------------------------------------------
\* Deduplicator.deduplicate on every list of up to MaxPapers records
\* ------------------------------------------------------------------------
InitDedup ==
    /\ SearchIdle
    /\ RankIdle
    /\ LookupIdle
    /\ MergeIdle
    /\ LimiterIdle
    /\ papers = <<>>
    /\ merged_papers = <<>>
    /\ merged_again = <<>>
    /\ dstep = "input"

AddPaper(p) ==
    /\ dstep = "input"
    /\ Len(papers) < MaxPapers
    /\ papers' = Append(papers, p)
    /\ UNCHANGED <<merged_papers, merged_again, dstep>>
    /\ UNCHANGED searchVars
    /\ UNCHANGED rankVars
    /\ UNCHANGED lookupVars
    /\ UNCHANGED <<mergeVars, limiterVars>>

CallDeduplicate ==
    /\ dstep = "input"
    /\ merged_papers' = Deduplicate(papers)
    /\ dstep' = "merged"
    /\ UNCHANGED <<papers, merged_again>>
    /\ UNCHANGED searchVars
    /\ UNCHANGED rankVars
    /\ UNCHANGED lookupVars
    /\ UNCHANGED <<mergeVars, limiterVars>>

CallDeduplicateAgain ==
    /\ dstep = "merged"
    /\ merged_again' = Deduplicate(merged_papers)
    /\ dstep' = "again"
    /\ UNCHANGED <<papers, merged_papers>>
    /\ UNCHANGED searchVars
    /\ UNCHANGED rankVars
    /\ UNCHANGED lookupVars
    /\ UNCHANGED <<mergeVars, limiterVars>>

NextDedup ==
    \/ \E p \in PaperPool : AddPaper(p)
    \/ CallDeduplicate
    \/ CallDeduplicateAgain

SpecDedup == InitDedup /\ [][NextDedup]_vars

\* ------------------------------------------------------------------------
\* Deduplicator.deduplicate on titles for which ratio() depends on the order
\* of its arguments: SequenceMatcher(None, "aaabaa", "abaababa").ratio() is
\* 12/14, SequenceMatcher(None, "abaababa", "aaabaa").ratio() is 8/14
\* ------------------------------------------------------------------------
Title_aaabaa == <<"a", "a", "a", "b", "a", "a">>
Title_abaababa == <<"a", "b", "a", "a", "b", "a", "b", "a">>

PaperT1 == Paper(Title_aaabaa, "10.3/t", None, None, <<"pubmed">>)
PaperT2 == Paper(Title_abaababa, None, None, None, <<"crossref">>)
PaperT3 == Paper(Title_aaabaa, None, None, None, <<"scholar">>)
PaperT4 == Paper(Title_abaababa, None, "333", None, <<"wos">>)

TitlePool == {PaperT1, PaperT2, PaperT3, PaperT4, PaperN1, PaperN4}

NextTitles ==
    \/ \E p \in TitlePool : AddPaper(p)
    \/ CallDeduplicate
    \/ CallDeduplicateAgain

SpecTitles == InitDedup /\ [][NextTitles]_vars

\* ------------------------------------------------------------------------
\* SearchOrchestrator.search
\* ------------------------------------------------------------------------
Init ==
    /\ query \in Queries
    /\ pc = "submit"
    /\ next_source = 1
    /\ futures = <<>>
    /\ already_finished = {}
    /\ finished_futures = <<>>
    /\ completion_order = <<>>
    /\ record_completion = FALSE
    /\ collected = <<>>
    /\ results_by_source = <<>>
    /\ errors = {}
    /\ all_papers = <<>>
    /\ deduplicated_papers = <<>>
    /\ result = NoResult
    /\ DedupIdle
    /\ RankIdle
    /\ LookupIdle
    /\ MergeIdle
    /\ LimiterIdle

\* faulty variant: every assignment adds an entry
DictPutAlwaysAppend(d, key, value) == Append(d, <<key, value>>)

\* results_by_source[source] = value: a new key goes last, an existing key
\* keeps its place
DictPut(d, key, value) ==
    IF \E i \in 1..Len(d) : d[i][1] = key
    THEN [i \in 1..Len(d) |-> IF d[i][1] = key THEN <<key, value>> ELSE d[i]]
    ELSE Append(d, <<key, value>>)

DictKeys(d) == [i \in 1..Len(d) |-> d[i][1]]

\* faulty variant: the lists are concatenated last key first
RECURSIVE ConcatValuesReversed(_)
ConcatValuesReversed(d) ==
    IF d = <<>> THEN <<>> ELSE ConcatValuesReversed(Tail(d)) \o Head(d)[2]

\* for papers in results_by_source.values(): all_papers.extend(papers)
RECURSIVE ConcatValues(_)
ConcatValues(d) ==
    IF d = <<>> THEN <<>> ELSE Head(d)[2] \o ConcatValues(Tail(d))

\* faulty variant: only the list stored first is counted
TotalFoundOfFirst(d) == IF d = <<>> THEN 0 ELSE Len(d[1][2])

\* sum(len(papers) for papers in results_by_source.values())
TotalFound(d) == SeqSum([i \in 1..Len(d) |-> Len(d[i][2])])

Running == {u \in 1..Len(futures) : futures[u].state = "RUNNING"}

Pending == {u \in 1..Len(futures) : futures[u].state = "PENDING"}

\* one pass of `for source in query.sources`: submit a unit if the source
\* has a provider, otherwise go on to the next source
Submit ==
    /\ pc = "submit"
    /\ next_source <= Len(query.sources)
    /\ LET source == query.sources[next_source]
       IN  futures' = IF source \in Providers
                      THEN Append(futures, [source |-> source, state |-> "PENDING",
                                            exception |-> None, papers |-> <<>>])
                      ELSE futures
    /\ next_source' = next_source + 1
    /\ UNCHANGED <<query, pc, already_finished, finished_futures, collected,
                   results_by_source, errors, all_papers, deduplicated_papers, result>>
    /\ UNCHANGED <<completion_order, record_completion>>
    /\ UNCHANGED dedupVars
    /\ UNCHANGED rankVars
    /\ UNCHANGED lookupVars
    /\ UNCHANGED <<mergeVars, limiterVars>>

\* the call as_completed(future_to_source): the futures already finished
\* are yielded first, in no particular order
AsCompleted ==
    /\ pc = "submit"
    /\ next_source > Len(query.sources)
    /\ pc' = "collect"
    /\ already_finished' = {u \in 1..Len(futures) : futures[u].state = "FINISHED"}
    /\ UNCHANGED <<query, next_source, futures, finished_futures, collected,
                   results_by_source, errors, all_papers, deduplicated_papers, result>>
    /\ UNCHANGED <<completion_order, record_completion>>
    /\ UNCHANGED dedupVars
    /\ UNCHANGED rankVars
    /\ UNCHANGED lookupVars
    /\ UNCHANGED <<mergeVars, limiterVars>>

\* faulty variant: a pool that starts every unit at once
WorkerAlwaysFree == TRUE

\* ThreadPoolExecutor(max_workers=Config.MAX_CONCURRENT_REQUESTS): a unit
\* starts only while fewer than max_workers are running
WorkerFree == Cardinality(Running) < MAX_CONCURRENT_REQUESTS

\* a pool worker takes the oldest queued unit
StartUnit(u) ==
    /\ u \in Pending
    /\ \A v \in Pending : u <= v
    /\ WorkerFree
    /\ futures' = [futures EXCEPT ![u].state = "RUNNING"]
    /\ UNCHANGED <<query, pc, next_source, already_finished, finished_futures,
                   collected, results_by_source, errors, all_papers,
                   deduplicated_papers, result>>
    /\ UNCHANGED <<completion_order, record_completion>>
    /\ UNCHANGED dedupVars
    /\ UNCHANGED rankVars
    /\ UNCHANGED lookupVars
    /\ UNCHANGED <<mergeVars, limiterVars>>

\* _search_source returns normally: provider.search(query) returned `found`
UnitReturns(u, found) ==
    /\ u \in Running
    /\ futures[u].source \in Providers
    /\ futures' = [futures EXCEPT ![u].state = "FINISHED", ![u].papers = found]
    /\ finished_futures' = IF pc = "collect" THEN Append(finished_futures, u)
                           ELSE finished_futures
    /\ completion_order' = IF record_completion THEN Append(completion_order, u)
                           ELSE completion_order
    /\ UNCHANGED record_completion
    /\ UNCHANGED <<query, pc, next_source, already_finished, collected,
                   results_by_source, errors, all_papers, deduplicated_papers, result>>
    /\ UNCHANGED dedupVars
    /\ UNCHANGED rankVars
    /\ UNCHANGED lookupVars
    /\ UNCHANGED <<mergeVars, limiterVars>>

\* _search_source raises: ValueError when the source has no provider, else
\* provider.search raised and is re-raised as Exception("Search failed: ...")
UnitRaises(u) ==
    /\ u \in Running
    /\ futures' = [futures EXCEPT
                      ![u].state = "FINISHED",
                      ![u].exception = IF futures[u].source \in Providers
                                       THEN "Exception" ELSE "ValueError"]
    /\ finished_futures' = IF pc = "collect" THEN Append(finished_futures, u)
                           ELSE finished_futures
    /\ completion_order' = IF record_completion THEN Append(completion_order, u)
                           ELSE completion_order
    /\ UNCHANGED record_completion
    /\ UNCHANGED <<query, pc, next_source, already_finished, collected,
                   results_by_source, errors, all_papers, deduplicated_papers, result>>
    /\ UNCHANGED dedupVars
    /\ UNCHANGED rankVars
    /\ UNCHANGED lookupVars
    /\ UNCHANGED <<mergeVars, limiterVars>>

\* faulty variant: no except clause around future.result()
CaughtNothing(exception) == FALSE

\* `except Exception as e` around future.result()
CaughtBySearch(exception) == exception \in {"Exception", "ValueError"}

\* faulty variant: search goes on as soon as one unit has been handled
FirstUnitJoined == collected # <<>> \/ futures = <<>>

\* the as_completed loop is exhausted and the `with` block has shut the
\* executor down (shutdown waits for every unit)
AllUnitsJoined ==
    /\ Range(collected) = 1..Len(futures)
    /\ \A u \in 1..Len(futures) : futures[u].state = "FINISHED"

\* one pass of `for future in as_completed(...)`
Collect(u) ==
    /\ pc = "collect"
    /\ IF already_finished # {}
       THEN /\ u \in already_finished
            /\ already_finished' = already_finished \ {u}
            /\ UNCHANGED finished_futures
       ELSE /\ finished_futures # <<>>
            /\ u = Head(finished_futures)
            /\ finished_futures' = Tail(finished_futures)
            /\ UNCHANGED already_finished
    /\ collected' = Append(collected, u)
    /\ IF futures[u].exception = None
       THEN /\ results_by_source' =
                   DictPut(results_by_source, futures[u].source, futures[u].papers)
            /\ UNCHANGED <<errors, pc>>
       ELSE IF CaughtBySearch(futures[u].exception)
       THEN /\ errors' = errors \cup {futures[u].source}
            /\ results_by_source' = DictPut(results_by_source, futures[u].source, <<>>)
            /\ UNCHANGED pc
       ELSE /\ pc' = "raised"
            /\ UNCHANGED <<errors, results_by_source>>
    /\ UNCHANGED <<query, next_source, futures, all_papers,
                   deduplicated_papers, result>>
    /\ UNCHANGED <<completion_order, record_completion>>
    /\ UNCHANGED dedupVars
    /\ UNCHANGED rankVars
    /\ UNCHANGED lookupVars
    /\ UNCHANGED <<mergeVars, limiterVars>>

\* the as_completed loop and the `with` block end; all_papers is built
Join ==
    /\ pc = "collect"
    /\ AllUnitsJoined
    /\ all_papers' = ConcatValues(results_by_source)
    /\ pc' = "dedup"
    /\ UNCHANGED <<query, next_source, futures, already_finished, finished_futures,
                   collected, results_by_source, errors, deduplicated_papers, result>>
    /\ UNCHANGED <<completion_order, record_completion>>
    /\ UNCHANGED dedupVars
    /\ UNCHANGED rankVars
    /\ UNCHANGED lookupVars
    /\ UNCHANGED <<mergeVars, limiterVars>>

\* deduplicated_papers = self.deduplicator.deduplicate(all_papers)
DeduplicateStep ==
    /\ pc = "dedup"
    /\ deduplicated_papers' = Deduplicate(all_papers)
    /\ pc' = "rank"
    /\ UNCHANGED <<query, next_source, futures, already_finished, finished_futures,
                   collected, results_by_source, errors, all_papers, result>>
    /\ UNCHANGED <<completion_order, record_completion>>
    /\ UNCHANGED dedupVars
    /\ UNCHANGED rankVars
    /\ UNCHANGED lookupVars
    /\ UNCHANGED <<mergeVars, limiterVars>>

\* ranked_papers = self._rank_papers(...); return SearchResult(...)
RankAndReturn ==
    /\ pc = "rank"
    /\ result' = [papers           |-> RankPapers(deduplicated_papers, query),
                  total_found      |-> TotalFound(results_by_source),
                  sources_searched |-> DictKeys(results_by_source),
                  errors           |-> errors]
    /\ pc' = "done"
    /\ UNCHANGED <<query, next_source, futures, already_finished, finished_futures,
                   collected, results_by_source, errors, all_papers,
                   deduplicated_papers>>
    /\ UNCHANGED <<completion_order, record_completion>>
    /\ UNCHANGED dedupVars
    /\ UNCHANGED rankVars
    /\ UNCHANGED lookupVars
    /\ UNCHANGED <<mergeVars, limiterVars>>

Next ==
    \/ Submit
    \/ AsCompleted
    \/ \E u \in 1..Len(futures) : StartUnit(u)
    \/ \E u \in 1..Len(futures) :
           \E found \in ProviderResults(futures[u].source) : UnitReturns(u, found)
    \/ \E u \in 1..Len(futures) : UnitRaises(u)
    \/ \E u \in 1..Len(futures) : Collect(u)
    \/ Join
    \/ DeduplicateStep
    \/ RankAndReturn

Spec == Init /\ [][Next]_vars

\* ------------------------------------------------------------------------
\* SearchOrchestrator.search on queries with more sources than the pool has
\* workers: one source more than MAX_CONCURRENT_REQUESTS
\* ------------------------------------------------------------------------
PoolQueries ==
    {SearchQuery([i \in 1..(MAX_CONCURRENT_REQUESTS + 1) |-> "wos"])}

InitPool ==
    /\ query \in PoolQueries
    /\ pc = "submit"
    /\ next_source = 1
    /\ futures = <<>>
    /\ already_finished = {}
    /\ finished_futures = <<>>
    /\ completion_order = <<>>
    /\ record_completion = FALSE
    /\ collected = <<>>
    /\ results_by_source = <<>>
    /\ errors = {}
    /\ all_papers = <<>>
    /\ deduplicated_papers = <<>>
    /\ result = NoResult
    /\ DedupIdle
    /\ RankIdle
    /\ LookupIdle
    /\ MergeIdle
    /\ LimiterIdle

SpecPool == InitPool /\ [][Next]_vars

\* ------------------------------------------------------------------------
\* SearchOrchestrator.search, keeping the order in which the units finished
\* ------------------------------------------------------------------------
MaxOrderSources == 2

InitOrder ==
    /\ query \in {SearchQuery(s) : s \in SeqsUpTo(QuerySources, MaxOrderSources)}
    /\ pc = "submit"
    /\ next_source = 1
    /\ futures = <<>>
    /\ already_finished = {}
    /\ finished_futures = <<>>
    /\ completion_order = <<>>
    /\ record_completion = TRUE
    /\ collected = <<>>
    /\ results_by_source = <<>>
    /\ errors = {}
    /\ all_papers = <<>>
    /\ deduplicated_papers = <<>>
    /\ result = NoResult
    /\ DedupIdle
    /\ RankIdle
    /\ LookupIdle
    /\ MergeIdle
    /\ LimiterIdle

SpecOrder == InitOrder /\ [][Next]_vars

\* ------------------------------------------------------------------------
\* SearchOrchestrator.search with its scheduling: the calling thread and the
\* pool's workers keep taking their steps; nothing makes a provider call
\* end (search passes no timeout to as_completed or to future.result()).
\* DeduplicateStep is enabled exactly when pc = "dedup" and always leaves
\* it, so its weak fairness is stated as: pc does not stay "dedup" for ever.
\* ------------------------------------------------------------------------
MaxLiveSources == 2

InitLive ==
    /\ query \in {SearchQuery(s) : s \in SeqsUpTo(QuerySources, MaxLiveSources)}
    /\ pc = "submit"
    /\ next_source = 1
    /\ futures = <<>>
    /\ already_finished = {}
    /\ finished_futures = <<>>
    /\ completion_order = <<>>
    /\ record_completion = FALSE
    /\ collected = <<>>
    /\ results_by_source = <<>>
    /\ errors = {}
    /\ all_papers = <<>>
    /\ deduplicated_papers = <<>>
    /\ result = NoResult
    /\ DedupIdle
    /\ RankIdle
    /\ LookupIdle
    /\ MergeIdle
    /\ LimiterIdle

SpecLive ==
    /\ InitLive
    /\ [][Next]_vars
    /\ WF_vars(Submit)
    /\ WF_vars(AsCompleted)
    /\ WF_vars(\E u \in 1..Len(futures) : StartUnit(u))
    /\ WF_vars(\E u \in 1..Len(futures) : Collect(u))
    /\ WF_vars(Join)
    /\ []<>(pc # "dedup")
    /\ WF_vars(RankAndReturn)

\* ------------------------------------------------------------------------
\* SearchOrchestrator._rank_papers on lists of up to MaxRankPapers records,
\* given as they are or after Deduplicator.deduplicate (as search does).
\* The records differ in title, abstract, citations (0 and 10^k - 1), year
\* (every recency tier and its edges), number of sources and paper type;
\* the queries have one term and no paper types, or several terms (one
\* repeated, one in upper case) and paper types.
\* ------------------------------------------------------------------------
MaxRankPapers == 3

RankRecord(title, citations, year) ==
    [Paper(title, None, None, None, <<"scholar">>) EXCEPT
        !.citations = citations, !.year = year]

RankPool ==
    {PaperA, PaperD, PaperN5,
     RankRecord(Title_aab, 0, 0),
     RankRecord(Title_aab, 9, 0),
     RankRecord(Title_aab, 9999999, 0),
     RankRecord(Title_ba, 0, CurrentYear - 2),
     RankRecord(Title_ba, 0, CurrentYear - 5),
     RankRecord(Title_abb, 0, CurrentYear - 10),
     RankRecord(Title_abb, 0, CurrentYear - 20),
     RankRecord(Title_abb, 0, CurrentYear - 21)}

RankQueries ==
    {[query |-> <<"a", "a", "b">>, sources |-> <<>>, paper_types |-> <<>>],
     [query |-> <<"A", "a", "b", " ", "b", "a", " ", "a", "a", "b">>,
      sources |-> <<>>, paper_types |-> <<"review", "article">>]}

InitRank ==
    /\ SearchIdle
    /\ DedupIdle
    /\ LookupIdle
    /\ MergeIdle
    /\ LimiterIdle
    /\ rank_query \in RankQueries
    /\ rank_papers = <<>>
    /\ scored_papers = <<>>
    /\ ranked_papers = <<>>
    /\ rstep = "input"

AddRankPaper(p) ==
    /\ rstep = "input"
    /\ Len(rank_papers) < MaxRankPapers
    /\ rank_papers' = Append(rank_papers, p)
    /\ UNCHANGED <<rank_query, scored_papers, ranked_papers, rstep>>
    /\ UNCHANGED searchVars
    /\ UNCHANGED dedupVars
    /\ UNCHANGED lookupVars
    /\ UNCHANGED <<mergeVars, limiterVars>>

\* the list is first deduplicated, as in search
DeduplicateForRank ==
    /\ rstep = "input"
    /\ rank_papers' = Deduplicate(rank_papers)
    /\ rstep' = "deduplicated"
    /\ UNCHANGED <<rank_query, scored_papers, ranked_papers>>
    /\ UNCHANGED searchVars
    /\ UNCHANGED dedupVars
    /\ UNCHANGED lookupVars
    /\ UNCHANGED <<mergeVars, limiterVars>>

CallRankPapers ==
    /\ rstep \in {"input", "deduplicated"}
    /\ scored_papers' = ScorePapers(rank_papers, rank_query)
    /\ ranked_papers' = RankPapers(rank_papers, rank_query)
    /\ rstep' = "ranked"
    /\ UNCHANGED <<rank_query, rank_papers>>
    /\ UNCHANGED searchVars
    /\ UNCHANGED dedupVars
    /\ UNCHANGED lookupVars
    /\ UNCHANGED <<mergeVars, limiterVars>>

NextRank ==
    \/ \E p \in RankPool : AddRankPaper(p)
    \/ DeduplicateForRank
    \/ CallRankPapers

SpecRank == InitRank /\ [][NextRank]_vars

\* ------------------------------------------------------------------------
\* SearchOrchestrator.get_paper_by_id.  A provider's get_paper_by_id
\* returns a Paper or None; `finders` is the set of providers that would
\* return a Paper for the identifier.
\* ------------------------------------------------------------------------
Digits == {"0", "1", "2", "3"}

\* identifier.startswith(prefix)
StartsWith(s, prefix) ==
    Len(s) >= Len(prefix) /\ \A i \in 1..Len(prefix) : s[i] = prefix[i]

\* identifier.isdigit()
IsDigit(s) == s # <<>> /\ \A i \in 1..Len(s) : s[i] \in Digits

\* identifier.count(c)
CountChar(s, c) == Cardinality({i \in 1..Len(s) : s[i] = c})

LooksLikeDoi(s) == StartsWith(s, <<"1", "0", ".">>)

LooksLikeArxiv(s) ==
    IsSubstring(<<"a", "r", "x", "i", "v">>, LowerStr(s)) \/ CountChar(s, ".") = 1

\* the identifiers explored: DOIs with one dot and with two, a PMID, an
\* arXiv number, an identifier naming arXiv, one of no known shape, ""
Identifiers ==
    {<<"1", "0", ".", "1", "/", "x">>,
     <<"1", "0", ".", "1", ".", "2", "/", "x">>,
     <<"1", "2", "3">>,
     <<"2", "3", "0", "1", ".", "1">>,
     <<"A", "r", "x", "i", "v", "1">>,
     <<"a", "b", "c">>,
     <<"a", ".", "b", ".", "c">>,
     <<>>}

SourceHints == {None, "pubmed", "crossref", "scholar", "pmc"}

InitLookup ==
    /\ SearchIdle
    /\ DedupIdle
    /\ RankIdle
    /\ MergeIdle
    /\ LimiterIdle
    /\ identifier \in Identifiers
    /\ source_hint \in SourceHints
    /\ consulted = <<>>
    /\ found_by = None
    /\ lstep = "call"

\* one `if <pattern>:` block: `asked` is the list of providers consulted
\* so far; the provider is consulted when the pattern matches and no
\* earlier provider has returned a paper
TryProvider(asked, matches, provider, finders) ==
    IF matches /\ provider \in Providers
          /\ (asked = <<>> \/ asked[Len(asked)] \notin finders)
    THEN Append(asked, provider)
    ELSE asked

GetPaperById(finders) ==
    /\ lstep = "call"
    /\ LET doi_tried    == TryProvider(<<>>, LooksLikeDoi(identifier), "crossref", finders)
           pmid_tried   == TryProvider(doi_tried, IsDigit(identifier), "pubmed", finders)
           arxiv_tried  == TryProvider(pmid_tried, LooksLikeArxiv(identifier), "arxiv",
                                       finders)
           hint_tried   == TryProvider(arxiv_tried, source_hint # None, source_hint,
                                       finders)
       IN  /\ consulted' = hint_tried
           /\ found_by' = IF hint_tried # <<>> /\ hint_tried[Len(hint_tried)] \in finders
                          THEN hint_tried[Len(hint_tried)]
                          ELSE None
    /\ lstep' = "returned"
    /\ UNCHANGED <<identifier, source_hint>>
    /\ UNCHANGED searchVars
    /\ UNCHANGED dedupVars
    /\ UNCHANGED rankVars
    /\ UNCHANGED <<mergeVars, limiterVars>>

NextLookup == \E finders \in SUBSET Providers : GetPaperById(finders)

SpecLookup == InitLookup /\ [][NextLookup]_vars

\* ------------------------------------------------------------------------
\* Deduplicator._merge_paper_group on every group of up to MaxMergeGroup
\* records: the first record is the base, the others are folded into it by
\* _merge_into.  PaperN7 has an abstract as long as PaperA's.
\* ------------------------------------------------------------------------
MaxMergeGroup == 3

PaperN7 == [Paper(Title_aab, None, None, None, <<"crossref">>) EXCEPT
               !.abstract = <<"b", "b", "a">>, !.keywords = <<"k1", "k4">>]

MergePool == PaperPool \cup {PaperN7}

InitMerge ==
    /\ SearchIdle
    /\ DedupIdle
    /\ RankIdle
    /\ LookupIdle
    /\ LimiterIdle
    /\ merge_group = <<>>
    /\ merge_result = <<>>
    /\ mstep = "input"

AddMember(p) ==
    /\ mstep = "input"
    /\ Len(merge_group) < MaxMergeGroup
    /\ merge_group' = Append(merge_group, p)
    /\ UNCHANGED <<merge_result, mstep>>
    /\ UNCHANGED <<searchVars, dedupVars, rankVars, lookupVars, limiterVars>>

CallMergePaperGroup ==
    /\ mstep = "input"
    /\ merge_group # <<>>
    /\ merge_result' = MergePaperGroup(merge_group)
    /\ mstep' = "merged"
    /\ UNCHANGED merge_group
    /\ UNCHANGED <<searchVars, dedupVars, rankVars, lookupVars, limiterVars>>

NextMerge ==
    \/ \E p \in MergePool : AddMember(p)
    \/ CallMergePaperGroup

SpecMerge == InitMerge /\ [][NextMerge]_vars

\* ------------------------------------------------------------------------
\* RateLimiter.wait_if_needed, called by threads that share one limiter
\* (the workers of PDFRetriever.download_papers call it with key "download")
\* ------------------------------------------------------------------------
\* self.min_interval = 1.0 / calls_per_second, in ticks of the clock
MinInterval == 2

\* the clock is let run this many ticks
MaxTicks == 5

\* the number of calls of wait_if_needed explored
MaxCalls == 3

Threads == {"t1", "t2"}

Keys == {"download", "default"}

\* time.time() counts from 1970: the first reading is far more than
\* min_interval above the 0.0 that last_call holds for a key never stored
StartTime == MinInterval

NotCalling == [at |-> "idle", key |-> None, began |-> 0, current_time |-> 0, wake |-> 0]

InitLimiter ==
    /\ SearchIdle
    /\ DedupIdle
    /\ RankIdle
    /\ LookupIdle
    /\ MergeIdle
    /\ clock = StartTime
    /\ last_call = [k \in Keys |-> 0]
    /\ waiter = [t \in Threads |-> NotCalling]
    /\ returned = <<>>

CallsBegun == Len(returned) + Cardinality({t \in Threads : waiter[t].at # "idle"})

\* time passes
Tick ==
    /\ clock < StartTime + MaxTicks
    /\ clock' = clock + 1
    /\ UNCHANGED <<last_call, waiter, returned>>
    /\ UNCHANGED <<searchVars, dedupVars, rankVars, lookupVars, mergeVars>>

\* thread t calls wait_if_needed(key): `if self.min_interval <= 0: return`,
\* else `current_time = time.time()`
ReadClock(t, key) ==
    /\ waiter[t].at = "idle"
    /\ CallsBegun < MaxCalls
    /\ IF MinInterval <= 0
       THEN /\ returned' = Append(returned, [key |-> key, thread |-> t,
                                             began |-> Len(returned), at |-> clock])
            /\ UNCHANGED waiter
       ELSE /\ waiter' = [waiter EXCEPT ![t] = [at |-> "timed", key |-> key,
                                                began |-> Len(returned),
                                                current_time |-> clock, wake |-> 0]]
            /\ UNCHANGED returned
    /\ UNCHANGED <<clock, last_call>>
    /\ UNCHANGED <<searchVars, dedupVars, rankVars, lookupVars, mergeVars>>

\* `time_since_last_call = current_time - self.last_call[key]` and the test
\* `if time_since_last_call < self.min_interval`; when it holds the thread
\* goes to sleep for min_interval - time_since_last_call
ReadLastCall(t) ==
    /\ waiter[t].at = "timed"
    /\ LET time_since_last_call == waiter[t].current_time - last_call[waiter[t].key]
       IN  waiter' = IF time_since_last_call < MinInterval
                     THEN [waiter EXCEPT
                              ![t].at = "sleeping",
                              ![t].wake = clock + (MinInterval - time_since_last_call)]
                     ELSE [waiter EXCEPT ![t].at = "store"]
    /\ UNCHANGED <<clock, last_call, returned>>
    /\ UNCHANGED <<searchVars, dedupVars, rankVars, lookupVars, mergeVars>>

\* time.sleep(sleep_time) returns, no earlier than asked
Wake(t) ==
    /\ waiter[t].at = "sleeping"
    /\ clock >= waiter[t].wake
    /\ waiter' = [waiter EXCEPT ![t].at = "store"]
    /\ UNCHANGED <<clock, last_call, returned>>
    /\ UNCHANGED <<searchVars, dedupVars, rankVars, lookupVars, mergeVars>>

\* `self.last_call[key] = time.time()` and the call returns
StoreLastCall(t) ==
    /\ waiter[t].at = "store"
    /\ last_call' = [last_call EXCEPT ![waiter[t].key] = clock]
    /\ returned' = Append(returned, [key |-> waiter[t].key, thread |-> t,
                                     began |-> waiter[t].began, at |-> clock])
    /\ waiter' = [waiter EXCEPT ![t] = NotCalling]
    /\ UNCHANGED clock
    /\ UNCHANGED <<searchVars, dedupVars, rankVars, lookupVars, mergeVars>>

NextLimiter ==
    \/ Tick
    \/ \E t \in Threads : \E key \in Keys : ReadClock(t, key)
    \/ \E t \in Threads : ReadLastCall(t)
    \/ \E t \in Threads : Wake(t)
    \/ \E t \in Threads : StoreLastCall(t)

SpecLimiter == InitLimiter /\ [][NextLimiter]_vars

\* ========================================================================
\* Properties of Deduplicator.deduplicate (checked under SpecDedup)
\* ========================================================================
Deduplicated == dstep \in {"merged", "again"}

Indices(s) == 1..Len(s)

\* C1 (as stated): after deduplication no two output records share the same
\* non-null DOI, the same non-null PMID, or the same non-null arXiv ID.
C1_NoSharedIdentifier ==
    Deduplicated =>
        \A i, j \in Indices(merged_papers) :
            i # j =>
                /\ ~(merged_papers[i].doi # None
                     /\ merged_papers[i].doi = merged_papers[j].doi)
                /\ ~(merged_papers[i].pmid # None
                     /\ merged_papers[i].pmid = merged_papers[j].pmid)
                /\ ~(merged_papers[i].arxiv_id # None
                     /\ merged_papers[i].arxiv_id = merged_papers[j].arxiv_id)

\* C1 (amended): uniqueness holds for the identifier a record is grouped by:
\* no two output records share a non-null DOI, no two DOI-less output
\* records share a non-null PMID, and no two output records with neither
\* DOI nor PMID share a non-null arXiv ID.
C1_GroupingIdentifierUnique ==
    Deduplicated =>
        \A i, j \in Indices(merged_papers) :
            i # j =>
                /\ ~(merged_papers[i].doi # None
                     /\ merged_papers[i].doi = merged_papers[j].doi)
                /\ ~(merged_papers[i].doi = None /\ merged_papers[j].doi = None
                     /\ merged_papers[i].pmid # None
                     /\ merged_papers[i].pmid = merged_papers[j].pmid)
                /\ ~(merged_papers[i].doi = None /\ merged_papers[j].doi = None
                     /\ merged_papers[i].pmid = None /\ merged_papers[j].pmid = None
                     /\ merged_papers[i].arxiv_id # None
                     /\ merged_papers[i].arxiv_id = merged_papers[j].arxiv_id)

\* C1 witness: identifier groups were merged and the output still holds two
\* records with the same PMID, one of them carrying a DOI.
C1_Witness ==
    /\ dstep = "merged"
    /\ Len(merged_papers) < Len(papers)
    /\ \E i, j \in Indices(merged_papers) :
          /\ i # j
          /\ merged_papers[i].doi # None
          /\ merged_papers[j].doi = None
          /\ merged_papers[i].pmid # None
          /\ merged_papers[i].pmid = merged_papers[j].pmid

\* C2: deduplicate applied to its own output returns the same records, in
\* the same order, with the same field values.
C2_Idempotent ==
    dstep = "again" => merged_again = merged_papers

\* C2 witness: the first pass merged something and left several records,
\* among them a record of the no-identifier bucket that absorbed another.
C2_Witness ==
    /\ dstep = "again"
    /\ Len(merged_papers) >= 2
    /\ Len(merged_papers) < Len(papers)
    /\ \E i \in Indices(merged_papers) :
          /\ merged_papers[i].doi = None
          /\ merged_papers[i].pmid = None
          /\ merged_papers[i].arxiv_id = None
          /\ Len(merged_papers[i].sources) >= 2

TwoWithSameDoi ==
    /\ Len(papers) = 2
    /\ papers[1].doi # None
    /\ papers[1].doi = papers[2].doi
    /\ Range(papers[1].sources) # Range(papers[2].sources)

\* C3: two input records with the same non-null DOI and different source
\* tags give exactly one record, whose sources are the union of both and
\* whose citations are the maximum of the two.
C3_ExactIdentifierMerge ==
    (Deduplicated /\ TwoWithSameDoi) =>
        /\ Len(merged_papers) = 1
        /\ Range(merged_papers[1].sources)
              = Range(papers[1].sources) \cup Range(papers[2].sources)
        /\ merged_papers[1].citations = Max(papers[1].citations, papers[2].citations)

\* C3 witness: such a pair was deduplicated, the second record having the
\* larger citation count.
C3_Witness ==
    /\ dstep = "merged"
    /\ TwoWithSameDoi
    /\ papers[2].citations > papers[1].citations

\* A = papers[i] (DOI only), B = papers[j] (same DOI, and a PMID),
\* C = papers[k] (that PMID, no DOI)
IsChain(i, j, k) ==
    /\ {i, j, k} = 1..3
    /\ Len(papers) = 3
    /\ papers[i].doi # None /\ papers[i].pmid = None
    /\ papers[j].doi = papers[i].doi /\ papers[j].pmid # None
    /\ papers[k].doi = None /\ papers[k].pmid = papers[j].pmid

\* C4: for A (DOI=X), B (DOI=X, PMID=Y), C (PMID=Y, no DOI) in any input
\* order the output has exactly 2 records: A and B merged, and C separate.
C4_ChainNotTransitive ==
    Deduplicated =>
        \A i, j, k \in 1..3 :
            IsChain(i, j, k) =>
                /\ Len(merged_papers) = 2
                /\ merged_papers[1].doi = papers[i].doi
                /\ Range(merged_papers[1].sources)
                      = Range(papers[i].sources) \cup Range(papers[j].sources)
                /\ merged_papers[2] = papers[k]

\* C4 witness: the chain was deduplicated with C first in the input.
C4_Witness ==
    /\ dstep = "merged"
    /\ \E i, j \in 2..3 : IsChain(i, j, 1)

IdentifierFields == {"doi", "pmid", "pmcid", "arxiv_id"}

IdentifierOf(p, f) ==
    CASE f = "doi"      -> p.doi
      [] f = "pmid"     -> p.pmid
      [] f = "pmcid"    -> p.pmcid
      [] f = "arxiv_id" -> p.arxiv_id

\* the identifier deduplicate indexes the record by
GroupingField(p) ==
    IF p.doi # None THEN "doi"
    ELSE IF p.pmid # None THEN "pmid"
    ELSE IF p.arxiv_id # None THEN "arxiv_id"
    ELSE "none"

\* C5 (as stated): for every input record r some output record contains
\* every source tag of r, every keyword of r and every identifier value
\* (DOI, PMID, PMC ID, arXiv ID) r carries.
C5_NothingDropped ==
    Deduplicated =>
        \A r \in Range(papers) : \E o \in Range(merged_papers) :
            /\ Range(r.sources) \subseteq Range(o.sources)
            /\ Range(r.keywords) \subseteq Range(o.keywords)
            /\ \A f \in IdentifierFields :
                  IdentifierOf(r, f) # None => IdentifierOf(o, f) = IdentifierOf(r, f)

\* C5 (amended): for every input record r some output record contains every
\* source tag and keyword of r and the identifier r is grouped by (its DOI,
\* else its PMID, else its arXiv ID), and has some value in every identifier
\* field r has; another identifier value of r is dropped when the record it
\* is folded into already holds a different value for that field.
C5_SourcesKeywordsGroupingIdKept ==
    Deduplicated =>
        \A r \in Range(papers) : \E o \in Range(merged_papers) :
            /\ Range(r.sources) \subseteq Range(o.sources)
            /\ Range(r.keywords) \subseteq Range(o.keywords)
            /\ \A f \in IdentifierFields :
                  /\ IdentifierOf(r, f) # None => IdentifierOf(o, f) # None
                  /\ f = GroupingField(r) => IdentifierOf(o, f) = IdentifierOf(r, f)

\* C5 witness: a record was folded into a base with the same DOI and a
\* different PMID; its sources arrived, its PMID did not.
C5_Witness ==
    /\ dstep = "merged"
    /\ Len(papers) = 2
    /\ Len(merged_papers) = 1
    /\ papers[2].pmid # None
    /\ merged_papers[1].pmid # papers[2].pmid
    /\ Range(papers[2].sources) \subseteq Range(merged_papers[1].sources)
    /\ ~(Range(papers[2].sources) \subseteq Range(papers[1].sources))

\* ========================================================================
\* Properties of SearchOrchestrator.search (checked under Spec)
\* ========================================================================
Units == 1..Len(futures)

Raised(u) == futures[u].exception # None

\* number of records returned by unit u (0 for a failed unit)
ReturnedCount(u) == IF Raised(u) THEN 0 ELSE Len(futures[u].papers)

\* the records of the units that returned normally, in the order handled
RECURSIVE ReturnedRecords(_)
ReturnedRecords(order) ==
    IF order = <<>> THEN <<>>
    ELSE (IF Raised(Head(order)) THEN <<>> ELSE futures[Head(order)].papers)
         \o ReturnedRecords(Tail(order))

\* results_by_source[source]
DictGet(d, key) == (CHOOSE i \in 1..Len(d) : d[i][1] = key)

\* C6: total_found is the sum, over every unit submitted and completed, of
\* the number of records that unit returned (0 for a failed unit), counted
\* before deduplication.
C6_TotalFoundSumsUnits ==
    pc = "done" =>
        result.total_found = SeqSum([u \in Units |-> ReturnedCount(u)])

\* C7: search never raises because a provider raised, and the papers it
\* returns are the deduplicated, ranked records of the provider calls that
\* returned normally.
C7_ProviderFailureTolerated ==
    /\ pc # "raised"
    /\ pc = "done" =>
          result.papers = RankPapers(Deduplicate(ReturnedRecords(collected)), query)

\* C8: the keys of errors are exactly the dispatched sources whose provider
\* call raised; each of them is in sources_searched and contributes an
\* empty record list.
C8_ErrorsAreFailedSources ==
    pc = "done" =>
        /\ result.errors = {futures[u].source : u \in {v \in Units : Raised(v)}}
        /\ \A s \in result.errors :
              /\ s \in Range(result.sources_searched)
              /\ results_by_source[DictGet(results_by_source, s)][2] = <<>>

\* The three statements above fail only for a query that names a source
\* more than once (results_by_source keeps one list per source); for
\* pairwise distinct sources they hold.
DistinctSources ==
    \A i, j \in 1..Len(query.sources) : i # j => query.sources[i] # query.sources[j]

DistinctSourcesTotalFound == DistinctSources => C6_TotalFoundSumsUnits

DistinctSourcesFailureTolerated == DistinctSources => C7_ProviderFailureTolerated

DistinctSourcesErrors == DistinctSources => C8_ErrorsAreFailedSources

HasUnregisteredSource == \E i \in 1..Len(query.sources) : query.sources[i] \notin Providers

\* C9: a query that requests a source with no registered provider is
\* rejected before any unit is dispatched: nothing is submitted and search
\* does not go on to collect, merge or return a result.
C9_UnregisteredSourceRejected ==
    HasUnregisteredSource =>
        /\ futures = <<>>
        /\ pc \notin {"collect", "dedup", "rank", "done"}

\* C10: the Deduplicator and the Ranker run only after every source has
\* been submitted and every submitted unit has completed (returned or
\* raised); no unit is queued or running while they run.
C10_MergeAfterAllUnitsDone ==
    pc \in {"dedup", "rank", "done"} =>
        /\ next_source > Len(query.sources)
        /\ \A u \in Units : futures[u].state = "FINISHED"

\* C10 witness: the Deduplicator is about to run after two units, one that
\* raised and one that returned records.
C10_Witness ==
    /\ pc = "dedup"
    /\ \E u, v \in Units : Raised(u) /\ ~Raised(v) /\ futures[v].papers # <<>>

\* ========================================================================
\* Properties of SearchOrchestrator.search (checked under SpecPool)
\* ========================================================================

\* C11: the number of provider calls executing at the same time never
\* exceeds Config.MAX_CONCURRENT_REQUESTS, whatever the number of sources;
\* the units beyond the pool size stay queued until a worker is free.
C11_PoolBounded ==
    /\ Cardinality(Running) <= MAX_CONCURRENT_REQUESTS
    /\ \A u, v \in Units :
           futures[u].state = "PENDING" /\ v > u => futures[v].state = "PENDING"
    /\ \A u \in Units :
           futures[u].state # "PENDING" /\ u > MAX_CONCURRENT_REQUESTS
               => \E v \in Units : v < u /\ futures[v].state = "FINISHED"

\* the pool is full and a unit is waiting
C11_Witness ==
    /\ Cardinality(Running) = MAX_CONCURRENT_REQUESTS
    /\ Pending # {}
    /\ Len(futures) > MAX_CONCURRENT_REQUESTS

\* ========================================================================
\* Properties of SearchOrchestrator.search (checked under SpecLive)
\* ========================================================================

\* C12: search has no overall timeout or cancellation.  If every provider
\* call that starts eventually returns or raises, search eventually returns
\* a SearchResult; if one provider call never completes, search never
\* returns, whatever the other calls do.
C12_NoTimeout ==
    /\ (\A u \in 1..MaxLiveSources : []<>(u \notin Running)) => <>(pc = "done")
    /\ \A u \in 1..MaxLiveSources : <>[](u \in Running) => [](pc # "done")

\* search has returned after one call raised and another returned records
C12_Witness ==
    /\ pc = "done"
    /\ \E u, v \in Units : Raised(u) /\ ~Raised(v) /\ futures[v].papers # <<>>

\* ========================================================================
\* Properties of SearchOrchestrator._rank_papers (checked under SpecRank)
\* ========================================================================
Ranked == rstep = "ranked"

IndexPermutations(n) ==
    {f \in [1..n -> 1..n] : \A i, j \in 1..n : f[i] = f[j] => i = j}

\* C13: the ranked list is the ranker's input (the Deduplicator's output)
\* in descending order of relevance score, and records of equal score keep
\* the relative order they had in the input.
C13_StableDescendingSort ==
    Ranked =>
        /\ Len(ranked_papers) = Len(scored_papers)
        /\ \A i, j \in Indices(ranked_papers) :
               i < j => ranked_papers[i].relevance_score
                            >= ranked_papers[j].relevance_score
        /\ \E f \in IndexPermutations(Len(ranked_papers)) :
               /\ \A i \in Indices(ranked_papers) : ranked_papers[i] = scored_papers[f[i]]
               /\ \A i, j \in Indices(ranked_papers) :
                      (i < j /\ ranked_papers[i].relevance_score
                                   = ranked_papers[j].relevance_score)
                          => f[i] < f[j]

\* a deduplicated list was ranked in which two different records tie and a
\* third scores higher than both while coming after them in the input
C13_Witness ==
    /\ Ranked
    /\ rank_papers = Deduplicate(rank_papers)
    /\ \E i, j, k \in Indices(scored_papers) :
           /\ i < j /\ j < k
           /\ scored_papers[i] # scored_papers[j]
           /\ scored_papers[i].relevance_score = scored_papers[j].relevance_score
           /\ scored_papers[k].relevance_score > scored_papers[i].relevance_score

\* the record without its citation count and its score
WithoutCitations(p) == [p EXCEPT !.citations = 0, !.relevance_score = -1]

\* C14: of two records that differ only in citations, the one with more
\* citations never has the strictly lower relevance score.
C14_CitationMonotone ==
    Ranked =>
        \A i, j \in Indices(scored_papers) :
            (/\ WithoutCitations(scored_papers[i]) = WithoutCitations(scored_papers[j])
             /\ scored_papers[i].citations > scored_papers[j].citations)
                => scored_papers[i].relevance_score >= scored_papers[j].relevance_score

\* two records differing only in citations were ranked, below the cap
\* (scores differ) and, in another pair, with the cap reached
C14_Witness ==
    /\ Ranked
    /\ \E i, j, k \in Indices(scored_papers) :
           /\ WithoutCitations(scored_papers[i]) = WithoutCitations(scored_papers[j])
           /\ WithoutCitations(scored_papers[j]) = WithoutCitations(scored_papers[k])
           /\ scored_papers[i].citations > scored_papers[j].citations
           /\ scored_papers[j].citations > scored_papers[k].citations
           /\ scored_papers[i].relevance_score > scored_papers[j].relevance_score
           /\ scored_papers[j].relevance_score > scored_papers[k].relevance_score

\* the six terms of the score as the documentation words them
TermsFoundIn(text, q) ==
    Cardinality({t \in Range(Split(LowerStr(q.query))) : IsSubstring(t, LowerStr(text))})

RECURSIVE PowerOfTen(_)
PowerOfTen(k) == IF k = 0 THEN 1 ELSE 10 * PowerOfTen(k - 1)

\* 5 * log10(citations + 1) for citations + 1 a power of ten
FiveLog10(n) == 5 * (CHOOSE k \in 0..9 : PowerOfTen(k) = n)

AgeTier(year) ==
    CASE year = 0                -> 0
      [] CurrentYear - year <= 2  -> 20
      [] CurrentYear - year <= 5  -> 15
      [] CurrentYear - year <= 10 -> 10
      [] CurrentYear - year <= 20 -> 5
      [] OTHER                    -> 0

\* C15: the relevance score is the sum of six terms: 20 per distinct query
\* term found in the title, 5 per distinct query term found in the
\* abstract, min(30, 5 * log10(citations + 1)), the recency tier, 10 per
\* source, and 15 when the query lists paper types and the record's type is
\* one of them.
C15_ScoreIsSumOfSixTerms ==
    Ranked =>
        \A i \in Indices(ranked_papers) :
            LET p == ranked_papers[i]
                capped == IF FiveLog10(p.citations + 1) > 30 THEN 30
                          ELSE FiveLog10(p.citations + 1)
                typed == IF rank_query.paper_types # <<>>
                            /\ \E t \in Indices(rank_query.paper_types) :
                                   rank_query.paper_types[t] = p.paper_type
                         THEN 15 ELSE 0
            IN  p.relevance_score =
                    20 * TermsFoundIn(p.title, rank_query)
                    + 5 * TermsFoundIn(p.abstract, rank_query)
                    + capped
                    + AgeTier(p.year)
                    + 10 * Len(p.sources)
                    + typed

\* a record with every term at work was scored (a query term found in the
\* title, two in the abstract, citations, a year, two sources, a listed
\* paper type), next to a record whose citation term is capped
C15_Witness ==
    /\ Ranked
    /\ \E i \in Indices(ranked_papers) :
           LET p == ranked_papers[i]
           IN  /\ TermsFoundIn(p.title, rank_query) = 1
               /\ TermsFoundIn(p.abstract, rank_query) = 2
               /\ p.citations > 0
               /\ p.year # 0
               /\ Len(p.sources) = 2
               /\ p.paper_type = "review"
               /\ rank_query.paper_types # <<>>
    /\ \E i \in Indices(ranked_papers) : ranked_papers[i].citations = 9999999

\* the record without its score
WithoutScore(p) == [p EXCEPT !.relevance_score = -1]

\* C17: _rank_papers returns a permutation of the list it was given, every
\* returned record has a score, and no field but relevance_score is changed,
\* in the returned list or on the records of the list given.
C17_RankerWritesOnlyScore ==
    Ranked =>
        /\ Len(ranked_papers) = Len(rank_papers)
        /\ \E f \in IndexPermutations(Len(rank_papers)) :
               \A i \in Indices(ranked_papers) :
                   WithoutScore(ranked_papers[i]) = WithoutScore(rank_papers[f[i]])
        /\ \A i \in Indices(ranked_papers) : ranked_papers[i].relevance_score # -1
        /\ Len(scored_papers) = Len(rank_papers)
        /\ \A i \in Indices(scored_papers) :
               WithoutScore(scored_papers[i]) = WithoutScore(rank_papers[i])

\* a list of three records was ranked and came back in another order
C17_Witness ==
    /\ Ranked
    /\ Len(rank_papers) = MaxRankPapers
    /\ \A i \in Indices(rank_papers) : rank_papers[i].relevance_score = -1
    /\ \E i \in Indices(rank_papers) :
           WithoutScore(ranked_papers[i]) # WithoutScore(rank_papers[i])

\* ========================================================================
\* Properties of SearchOrchestrator.get_paper_by_id (checked under SpecLookup)
\* ========================================================================

\* C16: an identifier is routed by the first matching rule only: "10."
\* prefix to Crossref, all digits to PubMed, a single "." or "arxiv" to
\* arXiv; the hinted provider is consulted only when no pattern matches;
\* with no match and no hint nothing is consulted and nothing is found.
C16_FirstMatchingRuleOnly ==
    lstep = "returned" =>
        IF LooksLikeDoi(identifier) THEN consulted = <<"crossref">>
        ELSE IF IsDigit(identifier) THEN consulted = <<"pubmed">>
        ELSE IF LooksLikeArxiv(identifier) THEN consulted = <<"arxiv">>
        ELSE IF source_hint \in Providers THEN consulted = <<source_hint>>
        ELSE consulted = <<>> /\ found_by = None

\* what does hold: the providers are consulted in the order Crossref,
\* PubMed, arXiv, hint, each only if its rule applies, until one finds the
\* paper
LookupFallsThrough ==
    lstep = "returned" =>
        /\ (found_by # None => found_by = consulted[Len(consulted)])
        /\ \A i \in 1..Len(consulted) :
               \/ consulted[i] = "crossref" /\ LooksLikeDoi(identifier)
               \/ consulted[i] = "pubmed" /\ IsDigit(identifier)
               \/ consulted[i] = "arxiv" /\ LooksLikeArxiv(identifier)
               \/ consulted[i] = source_hint /\ i = Len(consulted)
        /\ (~LooksLikeDoi(identifier) /\ ~IsDigit(identifier)
                /\ ~LooksLikeArxiv(identifier) /\ source_hint \notin Providers)
               => consulted = <<>> /\ found_by = None

\* ========================================================================
\* Properties of the title stage and the skip rule of Deduplicator.deduplicate
\* (checked under SpecDedup)
\* ========================================================================
HasNoIdentifier(p) == p.doi = None /\ p.pmid = None /\ p.arxiv_id = None

\* similar as the documentation words it: identical after normalization, or
\* similarity ratio at or above the threshold
SimilarTitles(title1, title2) ==
    \/ NormalizeTitle(title1) = NormalizeTitle(title2)
    \/ RatioAtLeastThreshold(NormalizeTitle(title1), NormalizeTitle(title2))

SourcesWithin(p, out) == Range(p.sources) \subseteq Range(out.sources)

\* C18: any two identifier-less input records with similar (non-empty)
\* titles end up in the same single output record, whatever else the input
\* contains.
C18_SimilarTitlesMerged ==
    Deduplicated =>
        \A i, j \in Indices(papers) :
            (/\ i < j
             /\ HasNoIdentifier(papers[i]) /\ HasNoIdentifier(papers[j])
             /\ papers[i].title # <<>> /\ papers[j].title # <<>>
             /\ SimilarTitles(papers[i].title, papers[j].title))
                => \E k \in Indices(merged_papers) :
                       /\ SourcesWithin(papers[i], merged_papers[k])
                       /\ SourcesWithin(papers[j], merged_papers[k])

\* what does hold: the records of one title group (the records similar to
\* the first record not yet grouped) end up in one output record
TitleGroupsMerged ==
    Deduplicated =>
        LET groups == GroupByTitleSimilarity(NoIdPapers(papers))
        IN  \A g \in Indices(groups) :
                \E k \in Indices(merged_papers) :
                    \A m \in Indices(groups[g]) :
                        SourcesWithin(groups[g][m], merged_papers[k])

\* the output records with doi = None and the given PMID
EmittedForPmid(pmid) ==
    {k \in Indices(merged_papers) :
        merged_papers[k].doi = None /\ merged_papers[k].pmid = pmid}

\* the output records with neither DOI nor PMID and the given arXiv id
EmittedForArxiv(arxiv_id) ==
    {k \in Indices(merged_papers) :
        /\ merged_papers[k].doi = None /\ merged_papers[k].pmid = None
        /\ merged_papers[k].arxiv_id = arxiv_id}

ClaimedDois == {papers[i].doi : i \in {n \in Indices(papers) : papers[n].doi # None}}

ClaimedPmids ==
    {papers[i].pmid : i \in {n \in Indices(papers) :
                                papers[n].doi = None /\ papers[n].pmid # None}}

\* C19: a PMID group yields one merged output record unless a member
\* carries a DOI claimed by a DOI group, and then none; an arXiv group
\* likewise, unless a member carries a claimed DOI or PMID.
C19_SkipRule ==
    Deduplicated =>
        /\ \A i \in Indices(papers) :
               (papers[i].doi = None /\ papers[i].pmid # None) =>
                   LET group == SelectSeq(papers, LAMBDA p :
                                    p.doi = None /\ p.pmid = papers[i].pmid)
                       emitted == EmittedForPmid(papers[i].pmid)
                   IN  IF \E m \in Indices(group) : group[m].doi \in ClaimedDois
                       THEN emitted = {}
                       ELSE /\ Cardinality(emitted) = 1
                            /\ \A k \in emitted : \A m \in Indices(group) :
                                   SourcesWithin(group[m], merged_papers[k])
        /\ \A i \in Indices(papers) :
               (papers[i].doi = None /\ papers[i].pmid = None
                   /\ papers[i].arxiv_id # None) =>
                   LET group == SelectSeq(papers, LAMBDA p :
                                    /\ p.doi = None /\ p.pmid = None
                                    /\ p.arxiv_id = papers[i].arxiv_id)
                       emitted == EmittedForArxiv(papers[i].arxiv_id)
                   IN  IF \E m \in Indices(group) :
                              \/ group[m].doi \in ClaimedDois
                              \/ group[m].pmid \in ClaimedPmids
                       THEN emitted = {}
                       ELSE /\ Cardinality(emitted) = 1
                            /\ \A k \in emitted : \A m \in Indices(group) :
                                   SourcesWithin(group[m], merged_papers[k])

\* a PMID group of two records was merged next to a DOI record that
\* carries a PMID
C19_Witness ==
    /\ dstep = "merged"
    /\ \E i, j \in Indices(papers) :
           /\ i # j
           /\ papers[i].doi = None /\ papers[j].doi = None
           /\ papers[i].pmid # None /\ papers[i].pmid = papers[j].pmid
           /\ papers[i].sources # papers[j].sources
    /\ \E i \in Indices(papers) : papers[i].doi # None /\ papers[i].pmid # None

\* the output records made from a DOI, PMID or arXiv group
FromIdentifierGroup(k) == ~HasNoIdentifier(merged_papers[k])

\* the first identifier-group record whose title is similar to the title
\* group's, 0 if none
SimilarExisting(group) ==
    LET hits == {k \in Indices(merged_papers) :
                    /\ FromIdentifierGroup(k)
                    /\ TitlesSimilar(group[1].title, merged_papers[k].title)}
    IN  IF hits = {} THEN 0 ELSE CHOOSE k \in hits : \A k2 \in hits : k <= k2

Merged == mstep = "merged"

ScalarFields == {"doi", "pmid", "pmcid", "arxiv_id", "url", "pdf_url"}

FieldOf(p, f) ==
    CASE f = "doi"      -> p.doi
      [] f = "pmid"     -> p.pmid
      [] f = "pmcid"    -> p.pmcid
      [] f = "arxiv_id" -> p.arxiv_id
      [] f = "url"      -> p.url
      [] f = "pdf_url"  -> p.pdf_url

\* the members of the group that have a value for which `has` holds
MembersWith(has(_)) == {i \in Indices(merge_group) : has(merge_group[i])}

FirstOf(members) == CHOOSE i \in members : \A j \in members : i <= j

\* C21: folding never overwrites a value the base already has: each of
\* DOI, PMID, PMC ID, arXiv ID, URL and PDF URL keeps the base's value when
\* it has one and takes the folded record's only when the base's is empty;
\* paper_type changes only when the base's is unknown.  For a group of
\* several records: each field holds the value of the first member that has
\* one.
C21_NeverOverwrites ==
    Merged =>
        /\ \A f \in ScalarFields :
               LET having == MembersWith(LAMBDA p : FieldOf(p, f) # None)
               IN  FieldOf(merge_result, f) =
                       IF having = {} THEN None
                       ELSE FieldOf(merge_group[FirstOf(having)], f)
        /\ LET typed == MembersWith(LAMBDA p : p.paper_type # "unknown")
           IN  merge_result.paper_type =
                   IF typed = {} THEN "unknown"
                   ELSE merge_group[FirstOf(typed)].paper_type

\* a record with another PMID and paper type was folded into a base that
\* has its own and took its PMC ID, or one with another PDF URL was folded
\* into a base that has its own
C21_Witness ==
    /\ Merged
    /\ Len(merge_group) = 2
    /\ \/ /\ merge_group[1].pmid # None /\ merge_group[2].pmid # None
          /\ merge_group[1].pmid # merge_group[2].pmid
          /\ merge_group[1].paper_type # "unknown"
          /\ merge_group[2].paper_type \notin {"unknown", merge_group[1].paper_type}
          /\ merge_group[1].pmcid = None /\ merge_group[2].pmcid # None
       \/ /\ merge_group[1].pdf_url # None /\ merge_group[2].pdf_url # None
          /\ merge_group[1].pdf_url # merge_group[2].pdf_url

\* where an entry first occurs among the members after the base: member
\* index, then position in the member's list
FirstOccurrence(x, list(_)) ==
    LET places == {<<m, i>> \in (2..Len(merge_group)) \X (1..8) :
                      i <= Len(list(merge_group[m])) /\ list(merge_group[m])[i] = x}
    IN  CHOOSE pl \in places :
            \A other \in places :
                pl[1] < other[1] \/ (pl[1] = other[1] /\ pl[2] <= other[2])

\* `out` is the base's list followed by the entries of the further members
\* that are not yet present, in first-seen order, each once
IsFirstSeenUnion(out, list(_)) ==
    LET base == list(merge_group[1])
        all == UNION {Range(list(merge_group[m])) : m \in Indices(merge_group)}
        added == SubSeq(out, Len(base) + 1, Len(out))
    IN  /\ Len(out) >= Len(base)
        /\ SubSeq(out, 1, Len(base)) = base
        /\ Range(out) = all
        /\ \A a \in Indices(added) : added[a] \notin Range(base)
        /\ \A a, b \in Indices(added) :
               a < b =>
                   /\ added[a] # added[b]
                   /\ LET pa == FirstOccurrence(added[a], list)
                          pb == FirstOccurrence(added[b], list)
                      IN  pa[1] < pb[1] \/ (pa[1] = pb[1] /\ pa[2] < pb[2])

\* C22: the merged record's sources and keywords are the union of the
\* members' values in first-seen order: the base's entries first, in their
\* order, then each further member's new entries in member order, and no
\* entry is added that is already present.
C22_UnionInFirstSeenOrder ==
    Merged =>
        /\ IsFirstSeenUnion(merge_result.sources, LAMBDA p : p.sources)
        /\ IsFirstSeenUnion(merge_result.keywords, LAMBDA p : p.keywords)

\* three records were merged where a later member repeats a keyword of the
\* base and brings a new one, and the third brings another
C22_Witness ==
    /\ Merged
    /\ Len(merge_group) = 3
    /\ \E x \in Range(merge_group[2].keywords) : x \in Range(merge_group[1].keywords)
    /\ \E x \in Range(merge_group[2].keywords) : x \notin Range(merge_group[1].keywords)
    /\ \E x \in Range(merge_group[3].keywords) :
           x \notin Range(merge_group[1].keywords) \cup Range(merge_group[2].keywords)
    /\ Len(merge_result.sources) = 3

\* the first member whose list (abstract, authors) is of the greatest length
FirstLongest(list(_)) ==
    LET longest == {i \in Indices(merge_group) :
                       \A j \in Indices(merge_group) :
                           Len(list(merge_group[i])) >= Len(list(merge_group[j]))}
    IN  FirstOf(longest)

\* C23: for a merged group of any size the citations are the maximum over
\* the members, the abstract is the longest non-empty abstract and the
\* authors are the longest author list of a member; on equal length the
\* earlier member's value is kept.
C23_MaxCitationsLongestAbstractAuthors ==
    Merged =>
        /\ \A i \in Indices(merge_group) : merge_result.citations >= merge_group[i].citations
        /\ \E i \in Indices(merge_group) : merge_result.citations = merge_group[i].citations
        /\ merge_result.abstract = merge_group[FirstLongest(LAMBDA p : p.abstract)].abstract
        /\ merge_result.authors = merge_group[FirstLongest(LAMBDA p : p.authors)].authors

\* three records were merged: two different abstracts of equal length,
\* two different author lists of equal length, the most citations last
C23_Witness ==
    /\ Merged
    /\ Len(merge_group) = 3
    /\ \E i, j \in Indices(merge_group) :
           /\ i < j
           /\ merge_group[i].abstract # merge_group[j].abstract
           /\ Len(merge_group[i].abstract) = Len(merge_group[j].abstract)
           /\ merge_result.abstract = merge_group[i].abstract
    /\ \E i, j \in Indices(merge_group) :
           /\ i < j
           /\ merge_group[i].authors # merge_group[j].authors
           /\ Len(merge_group[i].authors) = Len(merge_group[j].authors)
           /\ merge_result.authors = merge_group[i].authors
    /\ merge_group[3].citations > merge_group[1].citations
    /\ merge_group[3].citations > merge_group[2].citations

\* ========================================================================
\* Properties of SearchOrchestrator.search (checked under SpecOrder)
\* ========================================================================
Joined == pc \in {"dedup", "rank", "done"}

\* the source of the i-th unit handled by the as_completed loop
HandledSource(i) == futures[collected[i]].source

\* the sources in the order in which the loop first handled them
HandledSources == FirstSeen([i \in Indices(collected) |-> HandledSource(i)])

\* the unit of source s that the loop handled last
LastHandled(s) ==
    LET last == CHOOSE i \in Indices(collected) :
                    /\ HandledSource(i) = s
                    /\ \A j \in Indices(collected) : HandledSource(j) = s => j <= i
    IN  collected[last]

\* C24 (as stated): the raw record list handed to the Deduplicator is the
\* concatenation of the per-source lists in the order in which the units
\* completed.
C24_CompletionOrderConcatenation ==
    (Joined /\ record_completion) =>
        all_papers = ReturnedRecords(completion_order)

\* C24: the raw record list handed to the Deduplicator is the concatenation
\* of one list per source, in the order in which the as_completed loop first
\* handled the sources (the list being that of the unit of the source handled
\* last, empty if it raised); units already finished when the loop starts
\* are handled in no particular order, so this need not be the order of
\* completion.
C24_HandlingOrderConcatenation ==
    Joined =>
        all_papers =
            ReturnedRecords([k \in Indices(HandledSources) |-> LastHandled(HandledSources[k])])

\* C24 witness: two units of different sources both returned records, the
\* one that completed first was handled second, and the list handed to the
\* Deduplicator starts with the records of the one that completed second.
C24_Witness ==
    /\ pc = "dedup"
    /\ record_completion
    /\ Len(completion_order) = 2
    /\ collected = <<completion_order[2], completion_order[1]>>
    /\ futures[1].source # futures[2].source
    /\ futures[1].papers # <<>>
    /\ futures[2].papers # <<>>
    /\ all_papers = futures[completion_order[2]].papers \o futures[completion_order[1]].papers

\* ========================================================================
\* Properties of RateLimiter.wait_if_needed (checked under SpecLimiter)
\* ========================================================================
\* C25: no two calls of wait_if_needed with the same key return less than
\* min_interval = 1/calls_per_second apart, whichever threads make them.
C25_MinIntervalBetweenReturns ==
    \A i, j \in Indices(returned) :
        (i < j /\ returned[i].key = returned[j].key) =>
            returned[j].at - returned[i].at >= MinInterval

\* What the limiter does guarantee: a call that begins after an earlier
\* call with the same key has returned returns at least min_interval after
\* it. Calls that overlap may return together.
SuccessiveCallsSpaced ==
    \A i, j \in Indices(returned) :
        (/\ returned[i].key = returned[j].key
         /\ i # j
         /\ i <= returned[j].began) =>
            returned[j].at - returned[i].at >= MinInterval

\* ========================================================================
\* Further properties of Deduplicator.deduplicate (checked under SpecDedup)
\* ========================================================================
ClaimedArxivIds ==
    {papers[i].arxiv_id : i \in {n \in Indices(papers) :
                                    /\ papers[n].doi = None /\ papers[n].pmid = None
                                    /\ papers[n].arxiv_id # None}}

\* the ways of assigning every input record to one output record
Foldings == [Indices(papers) -> Indices(merged_papers)]

\* under the assignment f every output record is made of the input records
\* assigned to it: its sources and keywords are theirs, its citation count
\* is the largest of theirs
FoldedAs(f) ==
    \A k \in Indices(merged_papers) :
        LET members == {i \in Indices(papers) : f[i] = k}
        IN  /\ members # {}
            /\ Range(merged_papers[k].sources) =
                   UNION {Range(papers[i].sources) : i \in members}
            /\ Range(merged_papers[k].keywords) =
                   UNION {Range(papers[i].keywords) : i \in members}
            /\ \E i \in members : merged_papers[k].citations = papers[i].citations
            /\ \A i \in members : merged_papers[k].citations >= papers[i].citations

\* C26: deduplicate never discards a record: every input record is folded
\* into exactly one output record, no PMID or arXiv group is skipped, and the
\* output records made from identifier groups number the distinct DOIs plus
\* the distinct PMIDs among DOI-less records plus the distinct arXiv ids
\* among records with neither.
C26_NoRecordDiscarded ==
    Deduplicated =>
        /\ \E f \in Foldings : FoldedAs(f)
        /\ Cardinality({k \in Indices(merged_papers) : FromIdentifierGroup(k)})
              = Cardinality(ClaimedDois) + Cardinality(ClaimedPmids)
                + Cardinality(ClaimedArxivIds)
        /\ \A pmid \in ClaimedPmids : Cardinality(EmittedForPmid(pmid)) = 1
        /\ \A arxiv_id \in ClaimedArxivIds : Cardinality(EmittedForArxiv(arxiv_id)) = 1

\* C26 witness: a DOI group, a PMID group and an arXiv group, three output
\* records.
C26_Witness ==
    /\ dstep = "merged"
    /\ Len(papers) = 3
    /\ Cardinality(ClaimedDois) = 1
    /\ Cardinality(ClaimedPmids) = 1
    /\ Cardinality(ClaimedArxivIds) = 1
    /\ Len(merged_papers) = 3

\* ========================================================================
\* Further properties of SearchOrchestrator.search (checked under Spec)
\* ========================================================================
RequestedRegistered == {query.sources[i] : i \in Indices(query.sources)} \cap Providers

\* C27: sources_searched holds exactly the requested sources that have a
\* registered provider, each once; no unit is dispatched for a source
\* without one; every key of errors is a source in sources_searched.
C27_SourcesSearchedAreRegisteredRequested ==
    pc = "done" =>
        /\ Range(result.sources_searched) = RequestedRegistered
        /\ \A i, j \in Indices(result.sources_searched) :
               i # j => result.sources_searched[i] # result.sources_searched[j]
        /\ \A u \in Units : futures[u].source \in Providers
        /\ Len(futures) = Cardinality({i \in Indices(query.sources) :
                                          query.sources[i] \in Providers})
        /\ result.errors \subseteq Range(result.sources_searched)

\* C27 witness: search has returned for a query that names a source without
\* a provider and names a registered source twice, one of whose units raised.
C27_Witness ==
    /\ pc = "done"
    /\ HasUnregisteredSource
    /\ \E u, v \in Units : u # v /\ futures[u].source = futures[v].source
    /\ result.errors # {}
    /\ Len(result.sources_searched) = 1

\* C28: for pairwise distinct sources, total_found, the keys of errors and
\* the set of sources_searched are determined by what each provider call
\* did (returned a list or raised), whatever the order in which the units
\* completed and were handled.
C28_OrderIndependentTotals ==
    (pc = "done" /\ DistinctSources) =>
        /\ result.total_found = SeqSum([u \in Units |-> ReturnedCount(u)])
        /\ result.errors = {futures[u].source : u \in {v \in Units : Raised(v)}}
        /\ Range(result.sources_searched) = {futures[u].source : u \in Units}

\* C28 witness: search has returned for two distinct sources whose units
\* were handled in the order opposite to submission; the second returned
\* records and the first raised.
C28_Witness ==
    /\ pc = "done"
    /\ DistinctSources
    /\ collected = <<2, 1>>
    /\ Raised(1)
    /\ ~Raised(2) /\ futures[2].papers # <<>>
    /\ result.sources_searched = <<futures[2].source, futures[1].source>>

\* ========================================================================
\* Order of the input of Deduplicator.deduplicate (checked under SpecDedup)
\* ========================================================================
\* the input list rearranged by the permutation perm of its indices
Rearranged(perm) == [i \in Indices(papers) |-> papers[perm[i]]]

\* C29: the number of output records does not depend on the order of the
\* input list: every permutation of the input gives as many output records.
C29_LengthPermutationInvariant ==
    Deduplicated =>
        \A perm \in IndexPermutations(Len(papers)) :
            Len(Deduplicate(Rearranged(perm))) = Len(merged_papers)

\* What does hold: when every input record carries an identifier the number
\* of output records is the same for every order of the input.
IdentifiedLengthPermutationInvariant ==
    (Deduplicated /\ NoIdPapers(papers) = <<>>) => C29_LengthPermutationInvariant

\* C30: an output record made from the no-identifier bucket has a title
\* that is not similar, in either direction, to the title of any other
\* output record.
C30_BucketTitlesDissimilar ==
    Deduplicated =>
        \A k, k2 \in Indices(merged_papers) :
            (k # k2 /\ ~FromIdentifierGroup(k)) =>
                /\ ~TitlesSimilar(merged_papers[k].title, merged_papers[k2].title)
                /\ ~TitlesSimilar(merged_papers[k2].title, merged_papers[k].title)

\* What does hold: the title of an output record made from the no-identifier
\* bucket, taken as first argument, is not similar to the title of any other
\* output record; and two output records made from the bucket are not
\* similar in either direction.
BucketTitleDissimilarAsFirst ==
    Deduplicated =>
        \A k, k2 \in Indices(merged_papers) :
            (k # k2 /\ ~FromIdentifierGroup(k)) =>
                /\ ~TitlesSimilar(merged_papers[k].title, merged_papers[k2].title)
                /\ ~FromIdentifierGroup(k2) =>
                       ~TitlesSimilar(merged_papers[k2].title, merged_papers[k].title)

====
